---- MODULE Spec2Model ----
(***************************************************************************)
(* Argument binding of starlark-rust native functions:                     *)
(* values/function.rs (FunctionParameter, FunctionArg, FunctionError,      *)
(* ParameterParser, NativeFunction::call) driven by the function body that *)
(* stdlib/macros/mod.rs (starlark_fun!, starlark_signature_extraction!)    *)
(* generates: one next_arg per signature slot, then check_no_more_args,    *)
(* then the user-written content.                                          *)
(***************************************************************************)
EXTENDS Integers, Sequences, FiniteSets, TLC

\* ------------------------------------------------------------------ bounds

\* longest signature (Vec<FunctionParameter>) a function is declared with
MaxSig == 2
\* most explicit positional values of a call
MaxPos == 2
\* most elements of the list given as *args
MaxArgs == 1
\* most explicit named values of a call
MaxNamed == 2
\* most entries of the dict (elements of the list) given as **kwargs
MaxKw == 2
\* bound methods wrapped around the native function
MaxWrap == 2
\* values in a FunctionArg a conversion is called on by itself
MaxConv == 2
\* the most methods of bool a program calls in one run
MaxOps == 3
\* the most values a hand-written function takes through next_normal and the
\* other operations it calls by itself
MaxTaken == 2

\* ------------------------------------------------------------------ values

\* A Value is one shape for every kind, so that any two compare:
\*   type   the get_type() string
\*   n      the number of an "int"
\*   s      the text of a "string"
\*   items  the elements of a "list"; the <<key, value>> entries of a "dict"
IntV(k) == [type |-> "int", n |-> k, s |-> "", items |-> <<>>]
StrV(t) == [type |-> "string", n |-> 0, s |-> t, items |-> <<>>]
ListV(xs) == [type |-> "list", n |-> 0, s |-> "", items |-> xs]
DictV(es) == [type |-> "dict", n |-> 0, s |-> "", items |-> es]
NoneV == [type |-> "NoneType", n |-> 0, s |-> "", items |-> <<>>]

\* Option<T>: None is <<>>, Some(x) is <<x>>
None == <<>>
Some(x) == <<x>>
IsSome(o) == Len(o) > 0
Unwrap(o) == o[1]

\* Value::get_type
GetType(v) == v.type

\* Value::to_str of a string value: its text
ToStr(v) == v.s

\* Value::iter: Ok(the elements) of a list, Ok(the keys) of a dict, Err otherwise
ValueIter(x) ==
  CASE x.type = "list" -> [ok |-> TRUE, items |-> x.items]
    [] x.type = "dict" -> [ok |-> TRUE, items |-> [i \in 1..Len(x.items) |-> x.items[i][1]]]
    [] OTHER -> [ok |-> FALSE, items |-> <<>>]

\* Value::at(index): a dict looks the key up; a list takes an in-range int index
\* and rejects every other index; other kinds do not support indexing
ValueAt(x, k) ==
  CASE x.type = "dict" ->
         LET hits == SelectSeq(x.items, LAMBDA e : e[1] = k)
         IN  IF Len(hits) > 0 THEN Some(hits[1][2]) ELSE None
    [] x.type = "list" ->
         IF k.type = "int" /\ k.n >= 0 /\ k.n < Len(x.items)
         THEN Some(x.items[k.n + 1]) ELSE None
    [] OTHER -> None

\* ------------------------------------------------- LinkedHashMap<String, Value>

\* a map is the sequence of its <<key, value>> entries in iteration order
LhmKeys(m) == {m[i][1] : i \in 1..Len(m)}
LhmContainsKey(m, k) == k \in LhmKeys(m)
LhmGet(m, k) == (SelectSeq(m, LAMBDA e : e[1] = k))[1][2]

\* LinkedHashMap::remove: unlinks the entry, the others keep their order
LhmRemove(m, k) == SelectSeq(m, LAMBDA e : e[1] # k)

\* LinkedHashMap::insert: a new key is linked at the end; an existing key gets the
\* new value and its node is detached and attached again, at the end
LhmInsert(m, k, v) == Append(LhmRemove(m, k), <<k, v>>)

\* -------------------------------------------------------- FunctionParameter

Normal(name) == [kind |-> "Normal", name |-> name, default |-> NoneV]
Optional(name) == [kind |-> "Optional", name |-> name, default |-> NoneV]
WithDefaultValue(name, v) == [kind |-> "WithDefaultValue", name |-> name, default |-> v]
ArgsArray(name) == [kind |-> "ArgsArray", name |-> name, default |-> NoneV]
KWArgsDict(name) == [kind |-> "KWArgsDict", name |-> name, default |-> NoneV]

\* FunctionType::Native(name)
Native(name) == [tag |-> "Native", name |-> name]
\* FunctionType::Def(name, module)
Def(name, module) == [tag |-> "Def", name |-> name, module |-> module]

\* ------------------------------------------------------------- FunctionArg

FunctionArgNormal(v) ==
  [kind |-> "Normal", opt |-> None, arr |-> <<>>, dict |-> <<>>, v |-> v]
FunctionArgOptional(o) ==
  [kind |-> "Optional", opt |-> o, arr |-> <<>>, dict |-> <<>>, v |-> NoneV]
FunctionArgArgsArray(a) ==
  [kind |-> "ArgsArray", opt |-> None, arr |-> a, dict |-> <<>>, v |-> NoneV]
FunctionArgKWArgsDict(d) ==
  [kind |-> "KWArgsDict", opt |-> None, arr |-> <<>>, dict |-> d, v |-> NoneV]
NoArg == [kind |-> "none", opt |-> None, arr |-> <<>>, dict |-> <<>>, v |-> NoneV]

\* ----------------------------------------------------------- FunctionError

NoError == [kind |-> "none", missing |-> "", function_type |-> Native(""), signature |-> <<>>,
   param_name |-> ""]
NotEnoughParameter(missing, function_type, signature) ==
  [kind |-> "NotEnoughParameter", missing |-> missing,
   function_type |-> function_type, signature |-> signature, param_name |-> ""]
ArgsValueIsNotString ==
  [kind |-> "ArgsValueIsNotString", missing |-> "", function_type |-> Native(""), signature |-> <<>>,
   param_name |-> ""]
ArgsArrayIsNotIterable ==
  [kind |-> "ArgsArrayIsNotIterable", missing |-> "", function_type |-> Native(""), signature |-> <<>>,
   param_name |-> ""]
KWArgsDictIsNotMappable ==
  [kind |-> "KWArgsDictIsNotMappable", missing |-> "", function_type |-> Native(""), signature |-> <<>>,
   param_name |-> ""]
ExtraParameter ==
  [kind |-> "ExtraParameter", missing |-> "", function_type |-> Native(""), signature |-> <<>>,
   param_name |-> ""]
\* ValueError, the errors of the conversions of a FunctionArg
IncorrectParameterType ==
  [kind |-> "IncorrectParameterType", missing |-> "", function_type |-> Native(""),
   signature |-> <<>>, param_name |-> ""]
IncorrectParameterTypeNamed(param_name) ==
  [kind |-> "IncorrectParameterTypeNamed", missing |-> "", function_type |-> Native(""),
   signature |-> <<>>, param_name |-> param_name]

\* --------------------------------------------------------- ParameterParser

\* struct ParameterParser { signature, index, function_type, positional, kwargs }
Parser(signature, function_type, positional, kwargs) ==
  [signature |-> signature, index |-> 0, function_type |-> function_type,
   positional |-> positional, kwargs |-> kwargs]
NoParser == Parser(<<>>, Native(""), <<>>, <<>>)

\* "Collect args" with the elements of *args put before the explicit values
CollectArgs_prepend(positional, args) ==
  IF IsSome(args)
  THEN LET y == ValueIter(Unwrap(args))
       IN  IF y.ok THEN [ok |-> TRUE, av |-> y.items \o positional]
           ELSE [ok |-> FALSE, av |-> positional]
  ELSE [ok |-> TRUE, av |-> positional]

\* ParameterParser::new, "Collect args": the explicit positional values, extended
\* by the elements of *args
CollectArgs(positional, args) ==
  IF IsSome(args)
  THEN LET y == ValueIter(Unwrap(args))
       IN  IF y.ok THEN [ok |-> TRUE, av |-> positional \o y.items]
           ELSE [ok |-> FALSE, av |-> positional]
  ELSE [ok |-> TRUE, av |-> positional]

\* the loop with the two tests of a key exchanged: the lookup before the type
RECURSIVE CollectKwargsLoop_lookup_first(_, _, _)
CollectKwargsLoop_lookup_first(x, ys, kwargs) ==
  IF ys = <<>> THEN [err |-> NoError, kwargs |-> kwargs]
  ELSE LET n == Head(ys)
           v == ValueAt(x, n)
       IN  IF IsSome(v)
           THEN IF GetType(n) = "string"
                THEN CollectKwargsLoop_lookup_first(x, Tail(ys),
                                                    LhmInsert(kwargs, ToStr(n), Unwrap(v)))
                ELSE [err |-> ArgsValueIsNotString, kwargs |-> kwargs]
           ELSE [err |-> KWArgsDictIsNotMappable, kwargs |-> kwargs]

\* ParameterParser::new, the loop `for n in &y` over the keys of **kwargs, from
\* the map built so far; the first key that fails ends it
RECURSIVE CollectKwargsLoop(_, _, _)
CollectKwargsLoop(x, ys, kwargs) ==
  IF ys = <<>> THEN [err |-> NoError, kwargs |-> kwargs]
  ELSE LET n == Head(ys) IN
       IF GetType(n) = "string"
       THEN LET k == ToStr(n)
                v == ValueAt(x, n)
            IN  IF IsSome(v)
                THEN CollectKwargsLoop(x, Tail(ys), LhmInsert(kwargs, k, Unwrap(v)))
                ELSE [err |-> KWArgsDictIsNotMappable, kwargs |-> kwargs]
       ELSE [err |-> ArgsValueIsNotString, kwargs |-> kwargs]

\* ParameterParser::new, "Collect kwargs"
CollectKwargs(named, kwargs_arg) ==
  IF IsSome(kwargs_arg)
  THEN LET x == Unwrap(kwargs_arg)
           y == ValueIter(x)
       IN  IF y.ok THEN CollectKwargsLoop(x, y.items, named)
           ELSE [err |-> KWArgsDictIsNotMappable, kwargs |-> named]
  ELSE [err |-> NoError, kwargs |-> named]

\* ParameterParser::new: Ok(parser) or Err(error)
ParameterParser_new(sig, ftype, positional, named, args, kwargs_arg) ==
  LET a == CollectArgs(positional, args) IN
  IF ~a.ok THEN [ok |-> FALSE, err |-> ArgsArrayIsNotIterable, parser |-> NoParser]
  ELSE LET k == CollectKwargs(named, kwargs_arg) IN
       IF k.err # NoError THEN [ok |-> FALSE, err |-> k.err, parser |-> NoParser]
       ELSE [ok |-> TRUE, err |-> NoError, parser |-> Parser(sig, ftype, a.av, k.kwargs)]

\* The outcome of one cursor operation: the parser after it, whether it returned
\* ("ok"), returned an error ("err") or panicked ("panic"), and what it returned
Outcome(p, status, arg, err) == [p |-> p, status |-> status, arg |-> arg, err |-> err]

\* next_normal that reads the named pool without taking the entry out
next_normal_keeps_named(p, name) ==
  IF p.positional # <<>>
  THEN Outcome([p EXCEPT !.index = @ + 1, !.positional = Tail(@)], "ok",
               FunctionArgNormal(Head(p.positional)), NoError)
  ELSE IF LhmContainsKey(p.kwargs, name)
  THEN Outcome([p EXCEPT !.index = @ + 1], "ok",
               FunctionArgNormal(LhmGet(p.kwargs, name)), NoError)
  ELSE Outcome(p, "err", NoArg,
               NotEnoughParameter(name, p.function_type, p.signature))

\* next_normal with the two lookups exchanged: the named pool before the
\* positional pool
next_normal_named_first(p, name) ==
  IF LhmContainsKey(p.kwargs, name)
  THEN Outcome([p EXCEPT !.kwargs = LhmRemove(@, name), !.index = @ + 1],
               "ok", FunctionArgNormal(LhmGet(p.kwargs, name)), NoError)
  ELSE IF p.positional # <<>>
  THEN Outcome([p EXCEPT !.positional = Tail(@), !.index = @ + 1],
               "ok", FunctionArgNormal(Head(p.positional)), NoError)
  ELSE Outcome(p, "err", NoArg, NotEnoughParameter(name, p.function_type, p.signature))

\* next_normal taking the positional value from the wrong end of the pool
next_normal_last_positional(p, name) ==
  IF p.positional # <<>>
  THEN Outcome([p EXCEPT !.positional = SubSeq(@, 1, Len(@) - 1), !.index = @ + 1],
               "ok", FunctionArgNormal(p.positional[Len(p.positional)]), NoError)
  ELSE IF LhmContainsKey(p.kwargs, name)
  THEN Outcome([p EXCEPT !.kwargs = LhmRemove(@, name), !.index = @ + 1],
               "ok", FunctionArgNormal(LhmGet(p.kwargs, name)), NoError)
  ELSE Outcome(p, "err", NoArg, NotEnoughParameter(name, p.function_type, p.signature))

\* next_normal that counts the slot as taken although it returns the error
next_normal_advances_on_error(p, name) ==
  IF p.positional # <<>>
  THEN Outcome([p EXCEPT !.positional = Tail(@), !.index = @ + 1],
               "ok", FunctionArgNormal(Head(p.positional)), NoError)
  ELSE IF LhmContainsKey(p.kwargs, name)
  THEN Outcome([p EXCEPT !.kwargs = LhmRemove(@, name), !.index = @ + 1],
               "ok", FunctionArgNormal(LhmGet(p.kwargs, name)), NoError)
  ELSE Outcome([p EXCEPT !.index = @ + 1], "err", NoArg,
               NotEnoughParameter(name, p.function_type, p.signature))

\* ParameterParser::next_normal; arg is FunctionArg::Normal of the returned value
next_normal(p, name) ==
  IF p.positional # <<>>
  THEN Outcome([p EXCEPT !.positional = Tail(@), !.index = @ + 1],
               "ok", FunctionArgNormal(Head(p.positional)), NoError)
  ELSE IF LhmContainsKey(p.kwargs, name)
  THEN Outcome([p EXCEPT !.kwargs = LhmRemove(@, name), !.index = @ + 1],
               "ok", FunctionArgNormal(LhmGet(p.kwargs, name)), NoError)
  ELSE Outcome(p, "err", NoArg, NotEnoughParameter(name, p.function_type, p.signature))

\* next_optional that does not advance the index
next_optional_no_advance(p, name) ==
  IF p.positional # <<>>
  THEN Outcome([p EXCEPT !.positional = Tail(@)], "ok",
               FunctionArgOptional(Some(Head(p.positional))), NoError)
  ELSE IF LhmContainsKey(p.kwargs, name)
  THEN Outcome([p EXCEPT !.kwargs = LhmRemove(@, name)], "ok",
               FunctionArgOptional(Some(LhmGet(p.kwargs, name))), NoError)
  ELSE Outcome(p, "ok", FunctionArgOptional(None), NoError)

\* next_optional that never consults the named pool
next_optional_positional_only(p, name) ==
  LET q == [p EXCEPT !.index = @ + 1] IN
  IF q.positional # <<>>
  THEN Outcome([q EXCEPT !.positional = Tail(@)],
               "ok", FunctionArgOptional(Some(Head(q.positional))), NoError)
  ELSE Outcome(q, "ok", FunctionArgOptional(None), NoError)

\* next_optional that, taking a positional value, also drops the named value
\* given under the parameter's name
next_optional_drops_shadowed(p, name) ==
  LET q == [p EXCEPT !.index = @ + 1] IN
  IF q.positional # <<>>
  THEN Outcome([q EXCEPT !.positional = Tail(@), !.kwargs = LhmRemove(@, name)],
               "ok", FunctionArgOptional(Some(Head(q.positional))), NoError)
  ELSE IF LhmContainsKey(q.kwargs, name)
  THEN Outcome([q EXCEPT !.kwargs = LhmRemove(@, name)],
               "ok", FunctionArgOptional(Some(LhmGet(q.kwargs, name))), NoError)
  ELSE Outcome(q, "ok", FunctionArgOptional(None), NoError)

\* ParameterParser::next_optional; arg is FunctionArg::Optional of the returned option
next_optional(p, name) ==
  LET q == [p EXCEPT !.index = @ + 1] IN
  IF q.positional # <<>>
  THEN Outcome([q EXCEPT !.positional = Tail(@)],
               "ok", FunctionArgOptional(Some(Head(q.positional))), NoError)
  ELSE IF LhmContainsKey(q.kwargs, name)
  THEN Outcome([q EXCEPT !.kwargs = LhmRemove(@, name)],
               "ok", FunctionArgOptional(Some(LhmGet(q.kwargs, name))), NoError)
  ELSE Outcome(q, "ok", FunctionArgOptional(None), NoError)

\* next_with_default_value that prefers the default to a value given by name
next_with_default_value_default_first(p, name, default_value) ==
  IF p.positional # <<>>
  THEN Outcome([p EXCEPT !.index = @ + 1, !.positional = Tail(@)],
               "ok", FunctionArgNormal(Head(p.positional)), NoError)
  ELSE Outcome([p EXCEPT !.index = @ + 1], "ok", FunctionArgNormal(default_value), NoError)

\* ParameterParser::next_with_default_value: next_optional(name).unwrap_or_else(default)
next_with_default_value(p, name, default_value) ==
  LET o == next_optional(p, name) IN
  Outcome(o.p, "ok",
          FunctionArgNormal(IF IsSome(o.arg.opt) THEN Unwrap(o.arg.opt) ELSE default_value),
          NoError)

\* next_args_array that copies the pool and leaves it as it was
next_args_array_keeps_pool(p) ==
  Outcome([p EXCEPT !.index = @ + 1], "ok", FunctionArgArgsArray(p.positional), NoError)

\* next_args_array that empties the pool and hands over its first value only
next_args_array_drops_rest(p) ==
  Outcome([p EXCEPT !.index = @ + 1, !.positional = <<>>], "ok",
          FunctionArgArgsArray(IF p.positional = <<>> THEN <<>> ELSE <<Head(p.positional)>>),
          NoError)

\* ParameterParser::next_args_array
next_args_array(p) ==
  Outcome([p EXCEPT !.index = @ + 1, !.positional = <<>>],
          "ok", FunctionArgArgsArray(p.positional), NoError)

\* next_kwargs_dict that hands the entries over in the opposite order
next_kwargs_dict_reversed(p) ==
  Outcome([p EXCEPT !.index = @ + 1, !.kwargs = <<>>],
          "ok",
          FunctionArgKWArgsDict([i \in 1..Len(p.kwargs) |-> p.kwargs[Len(p.kwargs) + 1 - i]]),
          NoError)

\* next_kwargs_dict that copies the named pool and leaves it as it was
next_kwargs_dict_keeps_pool(p) ==
  Outcome([p EXCEPT !.index = @ + 1], "ok", FunctionArgKWArgsDict(p.kwargs), NoError)

\* ParameterParser::next_kwargs_dict
next_kwargs_dict(p) ==
  Outcome([p EXCEPT !.index = @ + 1, !.kwargs = <<>>],
          "ok", FunctionArgKWArgsDict(p.kwargs), NoError)

\* next_arg that reports an error when every slot is taken
next_arg_reports_error(p) ==
  IF p.index = Len(p.signature) THEN Outcome(p, "err", NoArg, ExtraParameter)
  ELSE LET param == p.signature[p.index + 1] IN
       CASE param.kind = "Normal" -> next_normal(p, param.name)
         [] param.kind = "Optional" -> next_optional(p, param.name)
         [] param.kind = "WithDefaultValue" ->
              next_with_default_value(p, param.name, param.default)
         [] param.kind = "ArgsArray" -> next_args_array(p)
         [] param.kind = "KWArgsDict" -> next_kwargs_dict(p)

\* ParameterParser::next_arg: the assert! panics when the index is the length of
\* the signature, the indexing self.signature[self.index] panics when the index
\* is beyond it; else the slot at index is resolved by its kind
next_arg(p) ==
  IF p.index = Len(p.signature) THEN Outcome(p, "panic", NoArg, NoError)
  ELSE IF p.index > Len(p.signature) THEN Outcome(p, "panic", NoArg, NoError)
  ELSE LET param == p.signature[p.index + 1] IN
       CASE param.kind = "Normal" -> next_normal(p, param.name)
         [] param.kind = "Optional" -> next_optional(p, param.name)
         [] param.kind = "WithDefaultValue" ->
              next_with_default_value(p, param.name, param.default)
         [] param.kind = "ArgsArray" -> next_args_array(p)
         [] param.kind = "KWArgsDict" -> next_kwargs_dict(p)

\* check_no_more_args that forgets the named pool
check_no_more_args_positional_only(p, debug_assertions) ==
  LET q == [p EXCEPT !.positional = IF @ = <<>> THEN @ ELSE Tail(@)] IN
  IF p.positional # <<>>
  THEN Outcome(q, "err", NoArg, ExtraParameter)
  ELSE IF debug_assertions /\ q.index # Len(q.signature)
  THEN Outcome(q, "panic", NoArg, NoError)
  ELSE Outcome(q, "ok", NoArg, NoError)

\* check_no_more_args that asserts before it looks at the pools
check_no_more_args_assert_first(p, debug_assertions) ==
  LET q == [p EXCEPT !.positional = IF @ = <<>> THEN @ ELSE Tail(@)] IN
  IF debug_assertions /\ p.index # Len(p.signature)
  THEN Outcome(p, "panic", NoArg, NoError)
  ELSE IF p.positional # <<>> \/ p.kwargs # <<>>
  THEN Outcome(q, "err", NoArg, ExtraParameter)
  ELSE Outcome(q, "ok", NoArg, NoError)

\* ParameterParser::check_no_more_args: positional.next() takes a value off the
\* pool when there is one; debug_assert_eq! panics only in a build with debug
\* assertions
check_no_more_args(p, debug_assertions) ==
  LET q == [p EXCEPT !.positional = IF @ = <<>> THEN @ ELSE Tail(@)] IN
  IF p.positional # <<>> \/ p.kwargs # <<>>
  THEN Outcome(q, "err", NoArg, ExtraParameter)
  ELSE IF debug_assertions /\ q.index # Len(q.signature)
  THEN Outcome(q, "panic", NoArg, NoError)
  ELSE Outcome(q, "ok", NoArg, NoError)

\* ---- the conversions of a FunctionArg to the type a parameter declares

\* TryParamConvertFromValue::try_from for the types of the model: every value is
\* a Value, an int is an i64; None when the conversion fails
try_from(T, v) ==
  IF T = "Value" \/ (T = "i64" /\ v.type = "int") THEN Some(v) ELSE None

\* the result of a conversion: Ok(arg) or Err(err), and the values try_from was
\* called on, in order
Converted(ok, arg, err, tried) == [ok |-> ok, arg |-> arg, err |-> err, tried |-> tried]

\* the length of the longest prefix of xs whose values all convert to T
RECURSIVE ConvertiblePrefix(_, _)
ConvertiblePrefix(T, xs) ==
  IF xs = <<>> \/ try_from(T, Head(xs)) = None THEN 0
  ELSE 1 + ConvertiblePrefix(T, Tail(xs))

\* Iterator::map(T::try_from).collect::<Result<..>>: converts in order and stops
\* at the first value that fails
TryCollect(T, xs) ==
  LET n == ConvertiblePrefix(T, xs) IN
  [ok |-> n = Len(xs), tried |-> SubSeq(xs, 1, IF n = Len(xs) THEN n ELSE n + 1)]

\* into_normal that converts nothing
into_normal_unchecked(arg, param_name, T) ==
  IF arg.kind = "Normal"
  THEN Converted(TRUE, arg, NoError, <<>>)
  ELSE Converted(FALSE, NoArg, IncorrectParameterType, <<>>)

\* FunctionArg::into_normal
into_normal(arg, param_name, T) ==
  IF arg.kind = "Normal"
  THEN IF try_from(T, arg.v) # None
       THEN Converted(TRUE, FunctionArgNormal(Unwrap(try_from(T, arg.v))), NoError, <<arg.v>>)
       ELSE Converted(FALSE, NoArg, IncorrectParameterTypeNamed(param_name), <<arg.v>>)
  ELSE Converted(FALSE, NoArg, IncorrectParameterType, <<>>)

\* FunctionArg::into_optional: Optional(None) is Ok(None) without a conversion
into_optional(arg, param_name, T) ==
  IF arg.kind = "Optional"
  THEN IF arg.opt = None
       THEN Converted(TRUE, arg, NoError, <<>>)
       ELSE LET v == Unwrap(arg.opt) IN
            IF try_from(T, v) # None
            THEN Converted(TRUE, FunctionArgOptional(try_from(T, v)), NoError, <<v>>)
            ELSE Converted(FALSE, NoArg, IncorrectParameterTypeNamed(param_name), <<v>>)
  ELSE Converted(FALSE, NoArg, IncorrectParameterType, <<>>)

\* into_args_array that converts the first element only
into_args_array_first_only(arg, param_name, T) ==
  IF arg.kind = "ArgsArray"
  THEN LET c == TryCollect(T, IF arg.arr = <<>> THEN <<>> ELSE <<Head(arg.arr)>>) IN
       IF c.ok
       THEN Converted(TRUE, FunctionArgArgsArray(arg.arr), NoError, c.tried)
       ELSE Converted(FALSE, NoArg, IncorrectParameterTypeNamed(param_name), c.tried)
  ELSE Converted(FALSE, NoArg, IncorrectParameterType, <<>>)

\* FunctionArg::into_args_array
into_args_array(arg, param_name, T) ==
  IF arg.kind = "ArgsArray"
  THEN LET c == TryCollect(T, arg.arr) IN
       IF c.ok
       THEN Converted(TRUE, FunctionArgArgsArray(arg.arr), NoError, c.tried)
       ELSE Converted(FALSE, NoArg, IncorrectParameterTypeNamed(param_name), c.tried)
  ELSE Converted(FALSE, NoArg, IncorrectParameterType, <<>>)

\* FunctionArg::into_kw_args_dict: the entries are converted in the order of the
\* dict
into_kw_args_dict(arg, param_name, T) ==
  IF arg.kind = "KWArgsDict"
  THEN LET c == TryCollect(T, [i \in 1..Len(arg.dict) |-> arg.dict[i][2]]) IN
       IF c.ok
       THEN Converted(TRUE, FunctionArgKWArgsDict(arg.dict), NoError, c.tried)
       ELSE Converted(FALSE, NoArg, IncorrectParameterTypeNamed(param_name), c.tried)
  ELSE Converted(FALSE, NoArg, IncorrectParameterType, <<>>)

\* ---- starlark_module!: the parameter list of a declared function

\* a declared parameter: form is "1" (plain), "?" (optional), "=" (with a
\* default), "*", "**", "call_stack" or "env"; is_named is "named" or "#"; t is
\* the identifier, pt the declared type and e the default
Param(form, is_named, t, pt, e) ==
  [form |-> form, is_named |-> is_named, t |-> t, pt |-> pt, e |-> e]

\* starlark_param_name!
starlark_param_name(is_named, ident) ==
  IF is_named = "#" THEN "$" \o ident ELSE ident

\* starlark_signature! that pushes a Normal parameter for a call_stack or env
\* entry too
RECURSIVE starlark_signature_slot_for_env(_)
starlark_signature_slot_for_env(decl) ==
  IF decl = <<>> THEN <<>>
  ELSE LET d == Head(decl)
           rest == starlark_signature_slot_for_env(Tail(decl))
       IN  CASE d.form = "*" -> <<ArgsArray(d.t)>> \o rest
             [] d.form = "**" -> <<KWArgsDict(d.t)>> \o rest
             [] d.form = "?" ->
                  <<Optional(starlark_param_name(d.is_named, d.t))>> \o rest
             [] d.form = "=" ->
                  <<WithDefaultValue(starlark_param_name(d.is_named, d.t), d.e)>> \o rest
             [] OTHER -> <<Normal(starlark_param_name(d.is_named, d.t))>> \o rest

\* starlark_signature!: the FunctionParameter each declared parameter pushes
RECURSIVE starlark_signature(_)
starlark_signature(decl) ==
  IF decl = <<>> THEN <<>>
  ELSE LET d == Head(decl)
           rest == starlark_signature(Tail(decl))
       IN  CASE d.form \in {"call_stack", "env"} -> rest
             [] d.form = "*" -> <<ArgsArray(d.t)>> \o rest
             [] d.form = "**" -> <<KWArgsDict(d.t)>> \o rest
             [] d.form = "?" ->
                  <<Optional(starlark_param_name(d.is_named, d.t))>> \o rest
             [] d.form = "=" ->
                  <<WithDefaultValue(starlark_param_name(d.is_named, d.t), d.e)>> \o rest
             [] OTHER -> <<Normal(starlark_param_name(d.is_named, d.t))>> \o rest

\* one `let mut $t = args.next_arg()?.into_..(param_name)?` of the generated fn
Extraction(into, param_name, T) == [into |-> into, param_name |-> param_name, T |-> T]

\* starlark_signature_extraction!: the statements the declared parameters expand
\* to; an optional parameter always passes its "$" name to into_optional
RECURSIVE starlark_signature_extraction(_)
starlark_signature_extraction(decl) ==
  IF decl = <<>> THEN <<>>
  ELSE LET d == Head(decl)
           rest == starlark_signature_extraction(Tail(decl))
       IN  CASE d.form \in {"call_stack", "env"} -> rest
             [] d.form = "*" -> <<Extraction("into_args_array", d.t, d.pt)>> \o rest
             [] d.form = "**" -> <<Extraction("into_kw_args_dict", d.t, d.pt)>> \o rest
             [] d.form = "?" ->
                  <<Extraction("into_optional", starlark_param_name("#", d.t), d.pt)>>
                    \o rest
             [] OTHER ->
                  <<Extraction("into_normal", starlark_param_name(d.is_named, d.t), d.pt)>>
                    \o rest

\* the conversion a statement of the generated fn applies to what next_arg
\* returned
convert(step, arg) ==
  CASE step.into = "into_normal" -> into_normal(arg, step.param_name, step.T)
    [] step.into = "into_optional" -> into_optional(arg, step.param_name, step.T)
    [] step.into = "into_args_array" -> into_args_array(arg, step.param_name, step.T)
    [] step.into = "into_kw_args_dict" -> into_kw_args_dict(arg, step.param_name, step.T)

\* ---- callable values

\* a NativeFunction value and a WrappedMethod { method, self_obj } value, as the
\* objects a Value points to; method is the address of the wrapped value
NativeFunctionObject == [tag |-> "NativeFunction", self_obj |-> NoneV, method |-> 0]
WrappedMethod(self_obj, method) ==
  [tag |-> "WrappedMethod", self_obj |-> self_obj, method |-> method]

\* Value::data_ptr: the address of the object the value points to; a value is
\* held here by that address
data_ptr(v) == v

\* WrappedMethod::call that hands the receiver over after the caller's values
WrappedMethod_call_receiver_last(h, v, c) ==
  [callee |-> h[v].method,
   call |-> [c EXCEPT !.positional = Append(@, h[v].self_obj)]]

\* WrappedMethod::call: self_obj, then the caller's positional values; named,
\* args and kwargs as given; the wrapped value is called with them
WrappedMethod_call(h, v, c) ==
  [callee |-> h[v].method,
   call |-> [c EXCEPT !.positional = <<h[v].self_obj>> \o @]]

\* function_id of the value at address v: WrappedMethod::function_id for a bound
\* method; a NativeFunction has no function_id of its own and is identified by
\* its data pointer
function_id(h, v) ==
  IF h[v].tag = "WrappedMethod" THEN data_ptr(h[v].method) ELSE data_ptr(v)

\* ---- the textual forms of a callable

\* Value::to_repr of a default value: an int in decimal, a string in quotes
Value_to_repr(v) ==
  CASE v.type = "int" -> ToString(v.n)
    [] v.type = "string" -> "\"" \o v.s \o "\""
    [] OTHER -> "None"

\* FunctionType::to_str: the name, of Native and of Def
FunctionType_to_str(ft) == ft.name
\* FunctionType::to_repr
FunctionType_to_repr(ft) ==
  IF ft.tag = "Native" THEN "<native function " \o ft.name \o ">"
  ELSE "<function " \o ft.name \o " from " \o ft.module \o ">"

\* v.join(sep) of a Vec<String>
RECURSIVE join(_, _)
join(v, sep) ==
  IF v = <<>> THEN ""
  ELSE IF Len(v) = 1 THEN v[1]
  ELSE v[1] \o sep \o join(Tail(v), sep)

\* the closure of repr for one parameter
repr_param(x) ==
  CASE x.kind = "Normal" -> x.name
    [] x.kind = "Optional" -> "?" \o x.name
    [] x.kind = "WithDefaultValue" -> x.name \o " = " \o Value_to_repr(x.default)
    [] x.kind = "ArgsArray" -> "*" \o x.name
    [] x.kind = "KWArgsDict" -> "**" \o x.name

\* the closure of to_str for one parameter
to_str_param(x) ==
  CASE x.kind = "Normal" -> x.name
    [] x.kind = "Optional" -> x.name
    [] x.kind = "WithDefaultValue" -> x.name \o " = " \o Value_to_repr(x.default)
    [] x.kind = "ArgsArray" -> "*" \o x.name
    [] x.kind = "KWArgsDict" -> "**" \o x.name

\* repr(function_type, signature)
repr(ft, sig) ==
  FunctionType_to_repr(ft) \o "("
    \o join([i \in 1..Len(sig) |-> repr_param(sig[i])], ", ") \o ")"

\* to_str that keeps the marker of an optional parameter
to_str_with_markers(ft, sig) ==
  FunctionType_to_str(ft) \o "("
    \o join([i \in 1..Len(sig) |-> repr_param(sig[i])], ", ") \o ")"

\* to_str(function_type, signature)
to_str(ft, sig) ==
  FunctionType_to_str(ft) \o "("
    \o join([i \in 1..Len(sig) |-> to_str_param(sig[i])], ", ") \o ")"

\* Value::to_repr of the callable at address v: NativeFunction::to_repr, or
\* WrappedMethod::to_repr, which is self.method.to_repr()
RECURSIVE callable_to_repr(_, _, _, _)
callable_to_repr(h, v, ft, sig) ==
  IF h[v].tag = "WrappedMethod" THEN callable_to_repr(h, h[v].method, ft, sig)
  ELSE repr(ft, sig)

\* Value::to_str of the callable at address v: NativeFunction::to_str, or
\* WrappedMethod::to_str, which is self.method.to_str()
RECURSIVE callable_to_str(_, _, _, _)
callable_to_str(h, v, ft, sig) ==
  IF h[v].tag = "WrappedMethod" THEN callable_to_str(h, h[v].method, ft, sig)
  ELSE to_str(ft, sig)

\* ---- the bool type (boolean.rs)

\* Result<T, ValueError> of a method of TypedValue that returned Ok(v)
ResultOk(v) == [ok |-> TRUE, v |-> v]

\* the mistake of False counted as 1 and True as 0
to_int_inverted(self) == ResultOk(IF self THEN 0 ELSE 1)

\* to_int: Ok(if *self { 1 } else { 0 })
to_int(self) == ResultOk(IF self THEN 1 ELSE 0)

\* get_hash: Ok(self.to_int().unwrap() as u64); 0 and 1 are themselves as u64
get_hash(self) == ResultOk(to_int(self).v)

\* Ord of bool: false < true
cmp(self, other) ==
  IF self = other THEN "Equal" ELSE IF other THEN "Less" ELSE "Greater"

\* equals: Ok(self == other)
equals(self, other) == ResultOk(self = other)

\* compare: Ok(self.cmp(other))
compare(self, other) == ResultOk(cmp(self, other))

\* ------------------------------------------------------------ the program

VARIABLES
  signature,         \* NativeFunction.signature
  function_type,     \* NativeFunction.function_type
  call,              \* the payload NativeFunction::call is given
  pc,                \* where the call is: "call", "extract", "content", "returned", "panicked"
  parser,            \* the ParameterParser of the call (args, in the generated fn)
  results,           \* the FunctionArg each next_arg of the generated fn returned
  ret,               \* the ValueResult of the call: the error of Err
  body,              \* the extraction statements of the generated fn
  tried,             \* the values T::try_from was called on during the call
  heap,              \* the callable values that exist, by address
  callee,            \* the address of the value whose call() runs
  fid,               \* the FunctionId the evaluator got from the called value
  given,             \* the FunctionArg a conversion is called on by itself, or
                     \* the two booleans the methods of bool are called on
  op,                \* the function that ran last
  debug_assertions,  \* cfg!(debug_assertions) of the build, once
                     \* check_no_more_args has run under it
  suspended          \* the call of the same function another thread is in, while
                     \* that thread does not run: its id and its locals

\* the variables only a bound method changes
methodVars == <<heap, callee, fid>>

vars ==
  <<signature, function_type, call, pc, parser, results, ret, body, tried, heap, callee,
    fid, given, op, debug_assertions, suspended>>

\* no other thread is in a call of the function
NoFrame == [id |-> 0]

\* ---- the inputs

Names == {"a", "b"}

\* sequences of length = n, <= n over a set
SeqsOfLen(S, n) == [1..n -> S]
SeqsUpTo(S, n) == UNION {SeqsOfLen(S, k) : k \in 0..n}
Distinct(q) == \A i, j \in 1..Len(q) : q[i] = q[j] => i = j

\* the parameters a starlark_module! declaration can give a function
Slots ==
  {Normal(n) : n \in Names} \cup {Optional(n) : n \in Names}
    \cup {WithDefaultValue("a", IntV(41)), WithDefaultValue("b", IntV(42))}
    \cup {ArgsArray("args"), KWArgsDict("kwargs")}
Signatures == SeqsUpTo(Slots, MaxSig)
\* the declarations that give them: f(a, ?b, a = 41, *args, **kwargs) and the like
SlotDecls ==
  {Param("1", "named", n, "Value", NoneV) : n \in Names}
    \cup {Param("?", "named", n, "Value", NoneV) : n \in Names}
    \cup {Param("=", "named", "a", "Value", IntV(41)),
          Param("=", "named", "b", "Value", IntV(42))}
    \cup {Param("*", "named", "args", "Value", NoneV),
          Param("**", "named", "kwargs", "Value", NoneV)}

\* every value of a call is a different number, which tells where it came from:
\* 1.. explicit positional, 11.. elements of *args, 21.. explicit named,
\* 31.. values of **kwargs
Tagged(keys, base) == [i \in 1..Len(keys) |-> <<keys[i], IntV(base + i)>>]
Positionals == {[i \in 1..n |-> IntV(i)] : n \in 0..MaxPos}
Nameds == {Tagged(ks, 20) : ks \in {q \in SeqsUpTo(Names, MaxNamed) : Distinct(q)}}
ArgsValues ==
  {None, Some(IntV(0))} \cup {Some(ListV([i \in 1..n |-> IntV(10 + i)])) : n \in 0..MaxArgs}
\* the keys a **kwargs value yields: strings, and a number
KwKeys == {StrV(n) : n \in Names} \cup {IntV(7)}
KwargsValues ==
  {None, Some(IntV(0))}
    \cup {Some(DictV(Tagged(ks, 30))) : ks \in {q \in SeqsUpTo(KwKeys, MaxKw) : Distinct(q)}}
    \cup {Some(ListV(ks)) : ks \in {q \in SeqsUpTo({StrV("a"), IntV(7)}, MaxKw) : Distinct(q)}}
Calls ==
  [positional : Positionals, named : Nameds, args : ArgsValues, kwargs : KwargsValues]

Ok == NoError

\* ---- the state after NativeFunction::new, at the entry of NativeFunction::call
Init ==
  /\ signature \in Signatures
  /\ \E decl \in SeqsUpTo(SlotDecls, MaxSig) :
       /\ signature = starlark_signature(decl)
       /\ body = starlark_signature_extraction(decl)
  /\ tried = <<>>
  /\ function_type = Native("f")
  /\ call \in Calls
  /\ pc = "call"
  /\ parser = NoParser
  /\ results = <<>>
  /\ ret = Ok
  /\ heap = <<NativeFunctionObject>>
  /\ callee = 1
  /\ fid = None
  /\ given = NoArg
  /\ op = "none"
  /\ debug_assertions = None
  /\ suspended = NoFrame

\* NativeFunction::call: ParameterParser::new(..)?, then the function pointer
New ==
  /\ pc = "call"
  /\ heap[callee].tag = "NativeFunction"
  /\ LET r == ParameterParser_new(signature, function_type, call.positional,
                                  call.named, call.args, call.kwargs)
     IN  IF r.ok
         THEN /\ parser' = r.parser
              /\ pc' = "extract"
              /\ ret' = ret
         ELSE /\ parser' = parser
              /\ pc' = "returned"
              /\ ret' = r.err
  /\ op' = "new"
  /\ UNCHANGED <<signature, function_type, suspended, call, results, body, tried, methodVars, given,
                 debug_assertions>>

\* the statement of the generated fn with `.ok()` in place of the second `?`: a
\* value that does not convert is bound as it is
NextArg_conversion_error_dropped ==
  /\ pc = "extract"
  /\ Len(results) < Len(body)
  /\ LET o == next_arg(parser)
         c == convert(body[Len(results) + 1], o.arg)
     IN  /\ parser' = o.p
         /\ op' = IF o.status = "ok" THEN body[Len(results) + 1].into ELSE "next_arg"
         /\ CASE o.status = "ok" ->
                   /\ results' = Append(results, o.arg)
                   /\ tried' = tried \o c.tried
                   /\ UNCHANGED <<pc, ret>>
              [] o.status = "err" ->
                   /\ pc' = "returned"
                   /\ ret' = o.err
                   /\ UNCHANGED <<results, tried>>
              [] OTHER ->
                   /\ pc' = "panicked"
                   /\ UNCHANGED <<results, ret, tried>>
  /\ UNCHANGED <<signature, function_type, suspended, call, body, methodVars, given,
                 debug_assertions>>

\* the statement of the generated fn with the `?` replaced by a loop that calls
\* next_arg again when it returned an error
NextArg_retries_on_error ==
  /\ pc = "extract"
  /\ Len(results) < Len(body)
  /\ LET o == next_arg(parser)
         c == convert(body[Len(results) + 1], o.arg)
     IN  /\ parser' = o.p
         /\ op' = IF o.status = "ok" THEN body[Len(results) + 1].into ELSE "next_arg"
         /\ CASE o.status = "ok" /\ c.ok ->
                   /\ results' = Append(results, c.arg)
                   /\ tried' = tried \o c.tried
                   /\ UNCHANGED <<pc, ret>>
              [] o.status = "ok" /\ ~c.ok ->
                   /\ pc' = "returned"
                   /\ ret' = c.err
                   /\ tried' = tried \o c.tried
                   /\ UNCHANGED results
              [] o.status = "err" ->
                   /\ ret' = o.err
                   /\ UNCHANGED <<pc, results, tried>>
              [] OTHER ->
                   /\ pc' = "panicked"
                   /\ UNCHANGED <<results, ret, tried>>
  /\ UNCHANGED <<signature, function_type, suspended, call, body, methodVars, given,
                 debug_assertions>>

\* starlark_signature_extraction!: `let mut $t = args.next_arg()?.into_..()?` of
\* the next declared parameter
NextArg ==
  /\ pc = "extract"
  /\ Len(results) < Len(body)
  /\ LET o == next_arg(parser)
         c == convert(body[Len(results) + 1], o.arg)
     IN  /\ parser' = o.p
         /\ op' = IF o.status = "ok" THEN body[Len(results) + 1].into ELSE "next_arg"
         /\ CASE o.status = "ok" /\ c.ok ->
                   /\ results' = Append(results, c.arg)
                   /\ tried' = tried \o c.tried
                   /\ UNCHANGED <<pc, ret>>
              [] o.status = "ok" /\ ~c.ok ->
                   /\ pc' = "returned"
                   /\ ret' = c.err
                   /\ tried' = tried \o c.tried
                   /\ UNCHANGED results
              [] o.status = "err" ->
                   /\ pc' = "returned"
                   /\ ret' = o.err
                   /\ UNCHANGED <<results, tried>>
              [] OTHER ->
                   /\ pc' = "panicked"
                   /\ UNCHANGED <<results, ret, tried>>
  /\ UNCHANGED <<signature, function_type, suspended, call, body, methodVars, given,
                 debug_assertions>>

\* starlark_fun!: `args.check_no_more_args()?` after the extraction, in a build
\* with or without debug assertions
CheckNoMoreArgs ==
  /\ pc = "extract"
  /\ Len(results) = Len(body)
  /\ \E d \in BOOLEAN :
     LET o == check_no_more_args(parser, d)
     IN  /\ debug_assertions \in {None, Some(d)}
         /\ debug_assertions' = Some(d)
         /\ parser' = o.p
         /\ CASE o.status = "ok" ->
                   /\ pc' = "content"
                   /\ UNCHANGED ret
              [] o.status = "err" ->
                   /\ pc' = "returned"
                   /\ ret' = o.err
              [] OTHER ->
                   /\ pc' = "panicked"
                   /\ UNCHANGED ret
  /\ op' = "check_no_more_args"
  /\ UNCHANGED <<signature, function_type, suspended, call, results, body, tried, methodVars, given>>

\* starlark_fun!: `$($content)*`, the user-written body, reached with every
\* parameter bound
Content ==
  /\ pc = "content"
  /\ pc' = "returned"
  /\ op' = "content"
  /\ UNCHANGED <<signature, function_type, suspended, call, parser, results, ret, body, tried,
                 methodVars, given, debug_assertions>>

Next == New \/ NextArg \/ CheckNoMoreArgs \/ Content

Spec == Init /\ [][Next]_vars


\* ---- a bound method is called

\* the native function at address 1 and k bound methods around it, each wrapping
\* the value before it; the receiver of the bound method at address i is 50 + i
Chains ==
  {[i \in 1..(k + 1) |->
      IF i = 1 THEN NativeFunctionObject ELSE WrappedMethod(IntV(50 + i), i - 1)] :
     k \in 1..MaxWrap}
\* the payloads a bound method is called with: at most one named value, **kwargs
\* absent or a dict of at most one entry
MethodCalls ==
  {c \in Calls :
     /\ Len(c.named) <= 1
     /\ \/ c.kwargs = None
        \/ (Unwrap(c.kwargs).type = "dict" /\ Len(Unwrap(c.kwargs).items) <= 1)}

\* the state after WrappedMethod::new, before the evaluator calls the outermost
\* bound method
InitMethod ==
  /\ signature \in Signatures
  /\ \E decl \in SeqsUpTo(SlotDecls, MaxSig) :
       /\ signature = starlark_signature(decl)
       /\ body = starlark_signature_extraction(decl)
  /\ tried = <<>>
  /\ function_type = Native("f")
  /\ call \in MethodCalls
  /\ pc = "function_id"
  /\ parser = NoParser
  /\ results = <<>>
  /\ ret = Ok
  /\ heap \in Chains
  /\ callee = Len(heap)
  /\ fid = None
  /\ given = NoArg
  /\ op = "none"
  /\ debug_assertions = None
  /\ suspended = NoFrame

\* the evaluator asks the value it is about to call for its function_id
FunctionId ==
  /\ pc = "function_id"
  /\ fid' = Some(function_id(heap, callee))
  /\ pc' = "call"
  /\ UNCHANGED <<signature, function_type, suspended, call, parser, results, ret, body, tried, heap,
                 callee, given, debug_assertions>>
  /\ op' = "function_id"

\* WrappedMethod::call: the wrapped value is called with the receiver in front
WrappedMethodCall ==
  /\ pc = "call"
  /\ heap[callee].tag = "WrappedMethod"
  /\ LET r == WrappedMethod_call(heap, callee, call)
     IN  /\ callee' = r.callee
         /\ call' = r.call
  /\ UNCHANGED <<signature, function_type, suspended, pc, parser, results, ret, body, tried, heap,
                 fid, given, debug_assertions>>
  /\ op' = "WrappedMethod::call"

\* ---- a call runs to its end

\* the function is called with one of the payloads of MethodCalls
InitLive == Init /\ call \in MethodCalls

\* the call runs on a thread that is not held back forever: whenever a step of
\* the call is possible, one is taken
SpecLive == InitLive /\ [][Next]_vars /\ WF_vars(Next)

NextMethod ==
  FunctionId \/ WrappedMethodCall \/ New \/ NextArg \/ CheckNoMoreArgs \/ Content

SpecMethod == InitMethod /\ [][NextMethod]_vars

\* ---- a function declared with types and '#' parameters is called

\* the parameters of the declarations: a plain, optional or defaulted parameter a,
\* named or '#', of type Value or i64; *args and **kwargs of either element type;
\* call_stack and env
MacroParams ==
  {Param(f, n, "a", pt, IF f = "=" THEN IntV(41) ELSE NoneV) :
     f \in {"1", "?", "="}, n \in {"named", "#"}, pt \in {"Value", "i64"}}
    \cup {Param("*", "named", "args", pt, NoneV) : pt \in {"Value", "i64"}}
    \cup {Param("**", "named", "kwargs", pt, NoneV) : pt \in {"Value", "i64"}}
    \cup {Param("call_stack", "named", "cs", "Value", NoneV),
          Param("env", "named", "e", "Value", NoneV)}
MacroDecls == SeqsUpTo(MacroParams, MaxSig)

\* the payloads: the first positional value, the named value, the element of
\* *args and the value of **kwargs are an int or a string; a key of **kwargs
\* may be the "$a" no identifier can be
MacroPositionals ==
  Positionals \cup {[p EXCEPT ![1] = StrV("p")] : p \in Positionals \ {<<>>}}
MacroNameds == {<<>>, <<<<"a", IntV(21)>>>>, <<<<"a", StrV("n")>>>>}
MacroArgsValues ==
  {None, Some(IntV(0)), Some(ListV(<<IntV(11)>>)), Some(ListV(<<StrV("e")>>))}
MacroKwargsValues ==
  {None, Some(IntV(0)),
   Some(DictV(<<<<StrV("a"), IntV(31)>>>>)),
   Some(DictV(<<<<StrV("$a"), IntV(31)>>>>)),
   Some(DictV(<<<<StrV("a"), StrV("k")>>>>))}
MacroCalls ==
  [positional : MacroPositionals, named : MacroNameds, args : MacroArgsValues,
   kwargs : MacroKwargsValues]

\* the state at the entry of NativeFunction::call of a function starlark_module!
\* declared
InitMacro ==
  /\ \E decl \in MacroDecls :
       /\ signature = starlark_signature(decl)
       /\ body = starlark_signature_extraction(decl)
  /\ function_type = Native("f")
  /\ call \in MacroCalls
  /\ pc = "call"
  /\ parser = NoParser
  /\ results = <<>>
  /\ ret = Ok
  /\ tried = <<>>
  /\ heap = <<NativeFunctionObject>>
  /\ callee = 1
  /\ fid = None
  /\ given = NoArg
  /\ op = "none"
  /\ debug_assertions = None
  /\ suspended = NoFrame

SpecMacro == InitMacro /\ [][Next]_vars

\* ---- a conversion of a FunctionArg is called by itself

\* the values and the FunctionArgs of every variant made of them
ConvValues == {IntV(1), StrV("p")}
ConvArgs ==
  {FunctionArgNormal(v) : v \in ConvValues}
    \cup {FunctionArgOptional(None)} \cup {FunctionArgOptional(Some(v)) : v \in ConvValues}
    \cup {FunctionArgArgsArray(xs) : xs \in SeqsUpTo(ConvValues, MaxConv)}
    \cup {FunctionArgKWArgsDict([i \in 1..Len(xs) |-> <<<<"a", "b", "c">>[i], xs[i]>>]) :
            xs \in SeqsUpTo(ConvValues, MaxConv)}
\* the conversions asked for: each into_*, with a parameter name and a type
ConvSteps ==
  {Extraction(into, n, T) :
     into \in {"into_normal", "into_optional", "into_args_array", "into_kw_args_dict"},
     n \in {"a", "$a"}, T \in {"Value", "i64"}}

InitConv ==
  /\ given \in ConvArgs
  /\ \E step \in ConvSteps : body = <<step>>
  /\ signature = <<>>
  /\ function_type = Native("f")
  /\ call = [positional |-> <<>>, named |-> <<>>, args |-> None, kwargs |-> None]
  /\ pc = "convert"
  /\ parser = NoParser
  /\ results = <<>>
  /\ ret = Ok
  /\ tried = <<>>
  /\ heap = <<NativeFunctionObject>>
  /\ callee = 1
  /\ fid = None
  /\ op = "none"
  /\ debug_assertions = None
  /\ suspended = NoFrame

\* given.into_*(param_name)?: the converted FunctionArg, or the error returned
Convert ==
  /\ pc = "convert"
  /\ LET c == convert(body[1], given)
     IN  /\ tried' = c.tried
         /\ results' = IF c.ok THEN <<c.arg>> ELSE <<>>
         /\ ret' = IF c.ok THEN Ok ELSE c.err
  /\ pc' = "returned"
  /\ op' = body[1].into
  /\ UNCHANGED <<signature, function_type, suspended, call, parser, body, methodVars, given,
                 debug_assertions>>

SpecConv == InitConv /\ [][Convert]_vars

\* ---- a hand-written native function drives the ParameterParser

\* the signatures of these functions: a, ?b, a = 41, *args and **kwargs
FreeSlots ==
  {Normal("a"), Optional("b"), WithDefaultValue("a", IntV(41)), ArgsArray("args"),
   KWArgsDict("kwargs")}
FreeSignatures == SeqsUpTo(FreeSlots, MaxSig)

\* the payloads of these calls: positional values and at most one named value
FreeCalls ==
  {c \in Calls : Len(c.named) <= 1 /\ c.args = None /\ c.kwargs = None}

InitFree ==
  /\ signature \in FreeSignatures
  /\ body = <<>>
  /\ function_type = Native("f")
  /\ call \in FreeCalls
  /\ pc = "call"
  /\ parser = NoParser
  /\ results = <<>>
  /\ ret = Ok
  /\ tried = <<>>
  /\ heap = <<NativeFunctionObject>>
  /\ callee = 1
  /\ fid = None
  /\ given = NoArg
  /\ op = "none"
  /\ debug_assertions = None
  /\ suspended = NoFrame

\* the function calls args.next_arg(), whatever it has taken so far, and keeps
\* the FunctionArg or the error
ClientNextArg ==
  /\ pc = "extract"
  /\ LET o == next_arg(parser)
     IN  /\ parser' = o.p
         /\ CASE o.status = "ok" ->
                   /\ results' = Append(results, o.arg)
                   /\ ret' = Ok
                   /\ UNCHANGED pc
              [] o.status = "err" ->
                   /\ ret' = o.err
                   /\ UNCHANGED <<pc, results>>
              [] OTHER ->
                   /\ pc' = "panicked"
                   /\ UNCHANGED <<results, ret>>
  /\ op' = "next_arg"
  /\ UNCHANGED <<signature, function_type, suspended, call, body, tried, methodVars, given,
                 debug_assertions>>

\* the function calls args.check_no_more_args(), whatever it has taken so far,
\* and keeps the result
ClientCheckNoMoreArgs ==
  /\ pc = "extract"
  /\ \E d \in BOOLEAN :
     LET o == check_no_more_args(parser, d)
     IN  /\ debug_assertions \in {None, Some(d)}
         /\ debug_assertions' = Some(d)
         /\ parser' = o.p
         /\ CASE o.status = "ok" ->
                   /\ ret' = Ok
                   /\ UNCHANGED pc
              [] o.status = "err" ->
                   /\ ret' = o.err
                   /\ UNCHANGED pc
              [] OTHER ->
                   /\ pc' = "panicked"
                   /\ UNCHANGED ret
  /\ op' = "check_no_more_args"
  /\ UNCHANGED <<signature, function_type, suspended, call, results, body, tried, methodVars, given>>

\* the function keeps what an operation it called by itself returned: the value
\* or the error
ClientKeeps(o, fn) ==
  /\ pc = "extract"
  /\ parser.index < MaxTaken
  /\ parser' = o.p
  /\ IF o.status = "ok"
     THEN results' = Append(results, o.arg) /\ ret' = Ok
     ELSE results' = results /\ ret' = o.err
  /\ op' = fn
  /\ UNCHANGED <<signature, function_type, suspended, call, pc, body, tried, methodVars,
                 given, debug_assertions>>

\* the function calls args.next_normal(name) with a name of its choice
ClientNextNormal == \E name \in Names : ClientKeeps(next_normal(parser, name), "next_normal")

\* the function calls args.next_optional(name)
ClientNextOptional ==
  \E name \in Names : ClientKeeps(next_optional(parser, name), "next_optional")

\* the function calls args.next_with_default_value(name, &default_value)
ClientNextWithDefaultValue ==
  \E name \in Names :
    ClientKeeps(next_with_default_value(parser, name, IntV(41)), "next_with_default_value")

\* the function calls args.next_args_array()
ClientNextArgsArray == ClientKeeps(next_args_array(parser), "next_args_array")

\* the function calls args.next_kwargs_dict()
ClientNextKwargsDict == ClientKeeps(next_kwargs_dict(parser), "next_kwargs_dict")

NextFree ==
  \/ New \/ ClientNextArg \/ ClientCheckNoMoreArgs
  \/ ClientNextNormal \/ ClientNextOptional \/ ClientNextWithDefaultValue
  \/ ClientNextArgsArray \/ ClientNextKwargsDict

SpecFree == InitFree /\ [][NextFree]_vars

\* ---- the methods of bool are called on two booleans

\* one call of a method and what it returned
Called(fn, x, y, out) == [fn |-> fn, x |-> x, y |-> y, out |-> out]

InitBool ==
  /\ given \in BOOLEAN \X BOOLEAN
  /\ signature = <<>>
  /\ body = <<>>
  /\ function_type = Native("f")
  /\ call = [positional |-> <<>>, named |-> <<>>, args |-> None, kwargs |-> None]
  /\ pc = "bool"
  /\ parser = NoParser
  /\ results = <<>>
  /\ ret = Ok
  /\ tried = <<>>
  /\ heap = <<NativeFunctionObject>>
  /\ callee = 1
  /\ fid = None
  /\ op = "none"
  /\ debug_assertions = None
  /\ suspended = NoFrame

\* what no method of bool changes
boolFrame ==
  <<signature, function_type, suspended, call, pc, parser, ret, body, tried, methodVars,
    given, debug_assertions>>

ToInt ==
  /\ pc = "bool" /\ Len(results) < MaxOps
  /\ \E i \in 1..2 :
       results' = Append(results, Called("to_int", given[i], given[i], to_int(given[i])))
  /\ op' = "to_int"
  /\ UNCHANGED boolFrame

GetHash ==
  /\ pc = "bool" /\ Len(results) < MaxOps
  /\ \E i \in 1..2 :
       results' =
         Append(results, Called("get_hash", given[i], given[i], get_hash(given[i])))
  /\ op' = "get_hash"
  /\ UNCHANGED boolFrame

Equals ==
  /\ pc = "bool" /\ Len(results) < MaxOps
  /\ \E i, j \in 1..2 :
       results' =
         Append(results, Called("equals", given[i], given[j], equals(given[i], given[j])))
  /\ op' = "equals"
  /\ UNCHANGED boolFrame

Compare ==
  /\ pc = "bool" /\ Len(results) < MaxOps
  /\ \E i, j \in 1..2 :
       results' =
         Append(results,
                Called("compare", given[i], given[j], compare(given[i], given[j])))
  /\ op' = "compare"
  /\ UNCHANGED boolFrame

NextBool == ToInt \/ GetHash \/ Equals \/ Compare

SpecBool == InitBool /\ [][NextBool]_vars

\* ---- a callable is rendered

\* the callables: a native function alone, or with bound methods around it
Rendered == {<<NativeFunctionObject>>} \cup Chains

\* the declarations of the function: those of SlotDecls, a '#' parameter and a
\* parameter whose default is a string
RenderDecls ==
  SlotDecls \cup {Param("1", "#", "a", "Value", NoneV),
                   Param("=", "named", "b", "Value", StrV("x"))}

\* the state after the function and the bound methods were made; the function
\* type is the Native of NativeFunction::new or the Def of a function the crate
\* renders with the same repr and to_str
InitRender ==
  /\ \E decl \in SeqsUpTo(RenderDecls, MaxSig) :
       /\ signature = starlark_signature(decl)
       /\ body = starlark_signature_extraction(decl)
  /\ function_type \in {Native("f"), Def("f", "m")}
  /\ call = [positional |-> <<>>, named |-> <<>>, args |-> None, kwargs |-> None]
  /\ pc = "render"
  /\ parser = NoParser
  /\ results = <<>>
  /\ ret = Ok
  /\ tried = <<>>
  /\ heap \in Rendered
  /\ callee = Len(heap)
  /\ fid = None
  /\ given = NoArg
  /\ op = "none"
  /\ debug_assertions = None
  /\ suspended = NoFrame

\* to_repr() of the outermost callable
ToRepr ==
  /\ pc = "render" /\ Len(results) < MaxOps
  /\ results' =
       Append(results,
              Called("to_repr", callee, callee,
                     callable_to_repr(heap, callee, function_type, signature)))
  /\ op' = "to_repr"
  /\ UNCHANGED boolFrame

\* to_str() of the outermost callable
ToStrCallable ==
  /\ pc = "render" /\ Len(results) < MaxOps
  /\ results' =
       Append(results,
              Called("to_str", callee, callee,
                     callable_to_str(heap, callee, function_type, signature)))
  /\ op' = "to_str"
  /\ UNCHANGED boolFrame

NextRender == ToRepr \/ ToStrCallable

SpecRender == InitRender /\ [][NextRender]_vars

\* ---- two threads call the same function

\* the locals of a call of NativeFunction::call and of the generated fn
Frame(id, c, at, p, rs, r, t, o) ==
  [id |-> id, call |-> c, pc |-> at, parser |-> p, results |-> rs, ret |-> r,
   tried |-> t, op |-> o]

\* the declarations of the function both threads call, and the payloads of the
\* two calls: positional values and at most the named value a
ConcDecls ==
  {Param("1", "named", "a", "Value", NoneV), Param("?", "named", "b", "Value", NoneV),
   Param("*", "named", "args", "Value", NoneV),
   Param("**", "named", "kwargs", "Value", NoneV)}
ConcCalls ==
  {c \in Calls : Len(c.named) <= 1 /\ c.args = None /\ c.kwargs = None
                   /\ \A i \in 1..Len(c.named) : c.named[i][1] = "a"}

\* the state when both threads are at the entry of NativeFunction::call on the
\* same &self; the thread of call 1 runs
InitConc ==
  /\ \E decl \in SeqsUpTo(ConcDecls, MaxSig) :
       /\ signature = starlark_signature(decl)
       /\ body = starlark_signature_extraction(decl)
  /\ function_type = Native("f")
  /\ call \in ConcCalls
  /\ pc = "call"
  /\ parser = NoParser
  /\ results = <<>>
  /\ ret = Ok
  /\ tried = <<>>
  /\ heap = <<NativeFunctionObject>>
  /\ callee = 1
  /\ fid = None
  /\ given = NoArg
  /\ op = "none"
  /\ debug_assertions = None
  /\ \E c \in ConcCalls :
       suspended = Frame(2, c, "call", NoParser, <<>>, Ok, <<>>, "none")

\* the mistake of one ParameterParser used by both calls: the cursor stays where
\* it is when the threads switch
Yield_shared_parser ==
  /\ suspended # NoFrame
  /\ suspended' =
       Frame(3 - suspended.id, call, pc, parser, results, ret, tried, op)
  /\ call' = suspended.call
  /\ pc' = suspended.pc
  /\ parser' = parser
  /\ results' = suspended.results
  /\ ret' = suspended.ret
  /\ tried' = suspended.tried
  /\ op' = suspended.op
  /\ UNCHANGED <<signature, function_type, body, methodVars, given, debug_assertions>>

\* the scheduler switches threads between two steps: the other call goes on
\* with its own locals, on the same NativeFunction
Yield ==
  /\ suspended # NoFrame
  /\ suspended' =
       Frame(3 - suspended.id, call, pc, parser, results, ret, tried, op)
  /\ call' = suspended.call
  /\ pc' = suspended.pc
  /\ parser' = suspended.parser
  /\ results' = suspended.results
  /\ ret' = suspended.ret
  /\ tried' = suspended.tried
  /\ op' = suspended.op
  /\ UNCHANGED <<signature, function_type, body, methodVars, given, debug_assertions>>

NextConc == Yield \/ New \/ NextArg \/ CheckNoMoreArgs \/ Content

SpecConc == InitConc /\ [][NextConc]_vars

\* ------------------------------------------------------------ properties

\* the declared parameter the generated fn resolves next
Slot == signature[Len(results) + 1]
\* the generated fn is about to call next_arg for a parameter of this kind
AtSlot(kind) == pc = "extract" /\ Len(results) < Len(signature) /\ Slot.kind = kind
\* the step resolved the parameter to this FunctionArg
Resolved(arg) == pc' = "extract" /\ results' = Append(results, arg) /\ ret' = ret
\* map m without its i-th entry
WithoutEntry(m, i) == SubSeq(m, 1, i - 1) \o SubSeq(m, i + 1, Len(m))
\* the positions of key k in map m
EntriesOf(m, k) == {i \in 1..Len(m) : m[i][1] = k}

\* C1: resolving a Normal(name) parameter returns the first value of the positional
\* pool when the pool is not empty; otherwise it removes and returns the entry of
\* the named pool under name; otherwise the call fails with NotEnoughParameter
\* carrying name, the function type and the whole signature of the callable.
C1_NextNormal ==
  [][AtSlot("Normal") =>
       IF parser.positional # <<>>
       THEN Resolved(FunctionArgNormal(parser.positional[1]))
       ELSE IF EntriesOf(parser.kwargs, Slot.name) # {}
       THEN \E i \in EntriesOf(parser.kwargs, Slot.name) :
              /\ Resolved(FunctionArgNormal(parser.kwargs[i][2]))
              /\ parser'.kwargs = WithoutEntry(parser.kwargs, i)
       ELSE /\ pc' = "returned"
            /\ results' = results
            /\ ret'.kind = "NotEnoughParameter"
            /\ ret'.missing = Slot.name
            /\ ret'.function_type = function_type
            /\ ret'.signature = signature]_vars

\* a second Normal parameter failed for want of a value, after the first took its
\* value from the named pool
C1_Witness ==
  /\ pc = "returned"
  /\ ret.kind = "NotEnoughParameter"
  /\ Len(ret.signature) = 2
  /\ Len(results) = 1
  /\ signature[1].kind = "Normal"
  /\ results[1] = FunctionArgNormal(IntV(21))

\* the positions of the required (Normal) parameters, and the k-th of them
NormalSlots == {i \in 1..Len(signature) : signature[i].kind = "Normal"}
KthNormal(k) == CHOOSE i \in NormalSlots : Cardinality({j \in NormalSlots : j <= i}) = k
\* the call supplies one positional value per required parameter and nothing else
ExactCall ==
  /\ Len(call.positional) = Cardinality(NormalSlots)
  /\ call.named = <<>>
  /\ call.args = None
  /\ call.kwargs = None
\* the call never fails, and once every slot is resolved the k-th required
\* parameter holds the k-th positional value
BoundInOrder ==
  /\ ret = Ok
  /\ pc # "panicked"
  /\ pc \in {"content", "returned"} =>
       \A k \in 1..Cardinality(NormalSlots) :
         results[KthNormal(k)] = FunctionArgNormal(call.positional[k])
\* no parameter that takes positional values without being required (Optional,
\* WithDefaultValue, ArgsArray) is declared before a required one
NormalsFirst ==
  \A i, j \in 1..Len(signature) :
    i < j /\ signature[j].kind = "Normal" => signature[i].kind \in {"Normal", "KWArgsDict"}

\* C2 as stated: for every signature, whatever the mix and order of its slots, a
\* call that supplies exactly one positional value per required parameter binds
\* successfully and the k-th required parameter gets the k-th value.
C2_AnySignature == ExactCall => BoundInOrder

\* C2, amended: the same, for the signatures in which no Optional,
\* WithDefaultValue or ArgsArray slot precedes a Normal slot.
C2_NormalsFirst == ExactCall /\ NormalsFirst => BoundInOrder

\* a call of (Normal, Normal) with two positional values returned Ok with both bound
C2_Witness ==
  /\ pc = "returned"
  /\ ret = Ok
  /\ ExactCall
  /\ NormalsFirst
  /\ Cardinality(NormalSlots) = 2
  /\ results = <<FunctionArgNormal(IntV(1)), FunctionArgNormal(IntV(2))>>

\* C3: once every declared parameter is resolved, check_no_more_args fails with
\* ExtraParameter exactly when the positional pool or the named pool is not empty
\* and returns Ok otherwise; the generated fn makes the check whatever the number
\* of declared parameters, none included, and reaches its content only through it.
C3_CheckNoMoreArgs ==
  /\ [][pc = "extract" /\ Len(results) = Len(signature) =>
          IF parser.positional # <<>> \/ parser.kwargs # <<>>
          THEN pc' = "returned" /\ ret'.kind = "ExtraParameter"
          ELSE pc' = "content" /\ ret' = Ok]_vars
  /\ [][pc' = "content" /\ pc # "content" =>
          pc = "extract" /\ Len(results) = Len(signature)
            /\ parser.positional = <<>> /\ parser.kwargs = <<>>]_vars

\* a function declared with no parameter was called with a named argument only
\* and failed with ExtraParameter
C3_Witness ==
  /\ pc = "returned"
  /\ ret.kind = "ExtraParameter"
  /\ signature = <<>>
  /\ call.positional = <<>>
  /\ call.args = None
  /\ call.named # <<>>

\* C4: resolving a WithDefaultValue(name, default) parameter never fails: it
\* returns the next positional value when there is one, else the entry of the named
\* pool under name, which it removes, else the default stored in the signature;
\* binding never changes the signature, so the default is the same in every call.
C4_NextWithDefaultValue ==
  /\ [][AtSlot("WithDefaultValue") =>
          IF parser.positional # <<>>
          THEN Resolved(FunctionArgNormal(parser.positional[1]))
          ELSE IF EntriesOf(parser.kwargs, Slot.name) # {}
          THEN \E i \in EntriesOf(parser.kwargs, Slot.name) :
                 /\ Resolved(FunctionArgNormal(parser.kwargs[i][2]))
                 /\ parser'.kwargs = WithoutEntry(parser.kwargs, i)
          ELSE Resolved(FunctionArgNormal(Slot.default))]_vars
  /\ [][signature' = signature /\ (pc = "extract" => parser'.signature = signature)]_vars

\* (a, b = 42) called with one positional value returned Ok with b at its default
C4_Witness ==
  /\ pc = "returned"
  /\ ret = Ok
  /\ signature = <<Normal("a"), WithDefaultValue("b", IntV(42))>>
  /\ results = <<FunctionArgNormal(IntV(1)), FunctionArgNormal(IntV(42))>>

\* C5: resolving an Optional(name) parameter never fails: positional pool first,
\* then the named pool under name, and the empty result exactly when the positional
\* pool is empty and the named pool has no entry for name.
C5_NextOptional ==
  [][AtSlot("Optional") =>
       IF parser.positional # <<>>
       THEN Resolved(FunctionArgOptional(Some(parser.positional[1])))
       ELSE IF EntriesOf(parser.kwargs, Slot.name) # {}
       THEN \E i \in EntriesOf(parser.kwargs, Slot.name) :
              /\ Resolved(FunctionArgOptional(Some(parser.kwargs[i][2])))
              /\ parser'.kwargs = WithoutEntry(parser.kwargs, i)
       ELSE Resolved(FunctionArgOptional(None)) /\ parser'.kwargs = parser.kwargs]_vars

\* (?a, ?b) called with b given by name only: a is empty although the named pool
\* was not, and b took the named value
C5_Witness ==
  /\ signature = <<Optional("a"), Optional("b")>>
  /\ results = <<FunctionArgOptional(None), FunctionArgOptional(Some(IntV(21)))>>

\* C6: resolving an ArgsArray parameter returns every value left in the positional
\* pool, in pool order, leaves that pool empty and leaves the named pool as it was.
C6_NextArgsArray ==
  [][AtSlot("ArgsArray") =>
       /\ Resolved(FunctionArgArgsArray(parser.positional))
       /\ parser'.positional = <<>>
       /\ parser'.kwargs = parser.kwargs]_vars

\* *args collected three values (two explicit, one expanded) while the named pool
\* still held an entry
C6_Witness ==
  /\ pc = "extract"
  /\ Len(results) > 0
  /\ results[Len(results)] = FunctionArgArgsArray(<<IntV(1), IntV(2), IntV(11)>>)
  /\ parser.positional = <<>>
  /\ parser.kwargs # <<>>

\* a is b with some entries left out, the others in the same order
RECURSIVE IsSubseq(_, _)
IsSubseq(a, b) ==
  IF a = <<>> THEN TRUE
  ELSE IF b = <<>> THEN FALSE
  ELSE IF Head(a) = Head(b) THEN IsSubseq(Tail(a), Tail(b))
  ELSE IsSubseq(a, Tail(b))
\* the entries of the expanded **kwargs value, in its iteration order
Expanded ==
  IF call.kwargs = None THEN <<>>
  ELSE LET x == Unwrap(call.kwargs)
           ks == ValueIter(x).items
       IN  [i \in 1..Len(ks) |-> <<ks[i].s, Unwrap(ValueAt(x, ks[i]))>>]

\* C7: resolving a KWArgsDict parameter returns every entry left in the named pool
\* in the pool's order, leaves the named pool empty and the positional pool as it
\* was; the pool's order is insertion order: the explicit named arguments, then the
\* entries of the expanded **kwargs value, and removing an entry keeps the order of
\* the others.
C7_NextKwargsDict ==
  /\ [][AtSlot("KWArgsDict") =>
          /\ Resolved(FunctionArgKWArgsDict(parser.kwargs))
          /\ parser'.kwargs = <<>>
          /\ parser'.positional = parser.positional
          /\ IsSubseq(parser.kwargs, call.named \o Expanded)]_vars
  /\ [][pc = "call" /\ pc' = "extract" =>
          /\ IsSubseq(parser'.kwargs, call.named \o Expanded)
          /\ LhmKeys(parser'.kwargs) = LhmKeys(call.named \o Expanded)]_vars
  /\ [][pc = "extract" /\ pc' = "extract" => IsSubseq(parser'.kwargs, parser.kwargs)]_vars

\* **kwargs collected an explicit named argument followed by an entry of the
\* expanded value
C7_Witness ==
  /\ pc = "extract"
  /\ Len(results) > 0
  /\ results[Len(results)] =
       FunctionArgKWArgsDict(<<<<"a", IntV(21)>>, <<"b", IntV(31)>>>>)
  /\ parser.kwargs = <<>>

\* C8: ParameterParser::new builds the positional pool as the explicit positional
\* values in call order followed by the elements of *args in iteration order; when
\* *args is given and is not iterable the call fails with ArgsArrayIsNotIterable
\* and no parser is made.
C8_PositionalPool ==
  /\ pc = "extract" /\ results = <<>> =>
       parser.positional =
         call.positional \o (IF call.args = None THEN <<>> ELSE ValueIter(Unwrap(call.args)).items)
  /\ pc # "call" /\ call.args # None /\ Unwrap(call.args).type \notin {"list", "dict"} =>
       pc = "returned" /\ ret.kind = "ArgsArrayIsNotIterable" /\ parser = NoParser

\* the pool right after new: two explicit values, then the element of *args
C8_Witness ==
  /\ pc = "extract"
  /\ results = <<>>
  /\ parser.positional = <<IntV(1), IntV(2), IntV(11)>>

\* what the call gives as **kwargs, and the keys it yields
KwSupplied == call.kwargs # None
KwValue == Unwrap(call.kwargs)
KwIterable == KwValue.type \in {"list", "dict"}
KwKeysYielded == ValueIter(KwValue).items
\* the yielded keys that are not strings, and the strings that cannot be looked up
NotStringKeys == {i \in 1..Len(KwKeysYielded) : KwKeysYielded[i].type # "string"}
NotFoundKeys ==
  {i \in 1..Len(KwKeysYielded) :
     KwKeysYielded[i].type = "string" /\ ValueAt(KwValue, KwKeysYielded[i]) = None}
\* how ParameterParser::new ended
NewFailedWith(kind) == pc = "returned" /\ ret.kind = kind /\ results = <<>>
NewSucceeded ==
  /\ pc # "call"
  /\ ret.kind \notin {"ArgsArrayIsNotIterable", "KWArgsDictIsNotMappable", "ArgsValueIsNotString"}
\* the state new returned the parser in
AfterNew == pc = "extract" /\ results = <<>>
\* map m holds this entry
HasEntry(m, e) == \E i \in 1..Len(m) : m[i] = e

\* C9 as stated: new fails with KWArgsDictIsNotMappable when **kwargs is given
\* and cannot be iterated or a key it yields cannot be looked up in it, and with
\* ArgsValueIsNotString when a key it yields is not a string; otherwise every entry
\* of **kwargs is in the named pool together with the explicit named arguments.
C9_AsStated ==
  pc # "call" =>
    /\ KwSupplied /\ (~KwIterable \/ NotFoundKeys # {}) =>
         NewFailedWith("KWArgsDictIsNotMappable")
    /\ KwSupplied /\ KwIterable /\ NotStringKeys # {} =>
         NewFailedWith("ArgsValueIsNotString")
    /\ AfterNew =>
         /\ \A i \in 1..Len(Expanded) : HasEntry(parser.kwargs, Expanded[i])
         /\ \A i \in 1..Len(call.named) : HasEntry(parser.kwargs, call.named[i])

\* C9, amended: once the positional pool is set up (*args absent or iterable), new
\* fails with KWArgsDictIsNotMappable when **kwargs is given and cannot be
\* iterated; else the first key, in iteration order, that is not a string or cannot
\* be looked up decides: ArgsValueIsNotString when it is not a string,
\* KWArgsDictIsNotMappable when it is a string that cannot be looked up; with no
\* such key new succeeds and the named pool holds every entry of **kwargs together
\* with every explicit named argument whose name is not one of its keys.
C9_FirstOffendingKey ==
  pc # "call" /\ (call.args = None \/ Unwrap(call.args).type \in {"list", "dict"}) =>
    IF ~KwSupplied
    THEN NewSucceeded /\ (AfterNew => parser.kwargs = call.named)
    ELSE IF ~KwIterable
    THEN NewFailedWith("KWArgsDictIsNotMappable")
    ELSE IF NotStringKeys \cup NotFoundKeys = {}
    THEN /\ NewSucceeded
         /\ AfterNew =>
              /\ \A i \in 1..Len(Expanded) : HasEntry(parser.kwargs, Expanded[i])
              /\ \A i \in 1..Len(call.named) :
                   call.named[i][1] \notin LhmKeys(Expanded) =>
                     HasEntry(parser.kwargs, call.named[i])
    ELSE LET first == CHOOSE i \in NotStringKeys \cup NotFoundKeys :
                        \A j \in NotStringKeys \cup NotFoundKeys : i <= j
         IN  IF first \in NotStringKeys
             THEN NewFailedWith("ArgsValueIsNotString")
             ELSE NewFailedWith("KWArgsDictIsNotMappable")

\* **kwargs was a list whose first element is a string, which a list cannot look
\* up, and whose second is a number: the call failed with KWArgsDictIsNotMappable
C9_Witness ==
  /\ call.args = None
  /\ call.kwargs = Some(ListV(<<StrV("a"), IntV(7)>>))
  /\ NewFailedWith("KWArgsDictIsNotMappable")

\* a name is given both as an explicit named argument and as a key of a **kwargs
\* value that is otherwise in order
DuplicateNames ==
  IF /\ call.args = None \/ Unwrap(call.args).type \in {"list", "dict"}
     /\ KwSupplied
     /\ KwIterable
     /\ NotStringKeys \cup NotFoundKeys = {}
  THEN LhmKeys(call.named) \cap LhmKeys(Expanded)
  ELSE {}
\* the values the call gives under these names
ValuesUnder(names) ==
  {call.named[i][2] : i \in {j \in 1..Len(call.named) : call.named[j][1] \in names}}
    \cup {Expanded[i][2] : i \in {j \in 1..Len(Expanded) : Expanded[j][1] \in names}}
\* the values a FunctionArg holds
ValuesIn(arg) ==
  CASE arg.kind = "Normal" -> {arg.v}
    [] arg.kind = "Optional" -> {arg.opt[i] : i \in 1..Len(arg.opt)}
    [] arg.kind = "ArgsArray" -> {arg.arr[i] : i \in 1..Len(arg.arr)}
    [] arg.kind = "KWArgsDict" -> {arg.dict[i][2] : i \in 1..Len(arg.dict)}
    [] OTHER -> {}

\* C10: a name given both as an explicit named argument and as a key of the
\* expanded **kwargs value is a caller error: the call fails, the user-written
\* content is not reached, and neither of the two values is bound to a parameter.
C10_DuplicateIsError ==
  DuplicateNames # {} =>
    /\ pc # "content"
    /\ pc = "returned" => ret # Ok
    /\ \A i \in 1..Len(results) : ValuesIn(results[i]) \cap ValuesUnder(DuplicateNames) = {}

\* ---- C11

\* every declared parameter is Normal and no two share a name
AllNormalDistinct ==
  /\ \A i \in 1..Len(signature) : signature[i].kind = "Normal"
  /\ \A i, j \in 1..Len(signature) : signature[i].name = signature[j].name => i = j
\* the call gives the first k parameters by position and the others by name
LeftoverCall(k) ==
  /\ Len(call.positional) = k
  /\ call.args = None /\ call.kwargs = None
  /\ Len(call.named) = Len(signature) - k
  /\ LhmKeys(call.named) = {signature[i].name : i \in (k + 1)..Len(signature)}
\* the value the call supplies for the i-th parameter
SuppliedFor(i) ==
  IF i <= Len(call.positional) THEN call.positional[i]
  ELSE LhmGet(call.named, signature[i].name)

\* C11: for a signature of n Normal parameters with distinct names, a call that
\* gives the first k by position and the other n-k by name, in any order of the
\* names, binds every parameter to the value supplied for it, passes
\* check_no_more_args and returns no error
C11_NamedFillLeftover ==
  (AllNormalDistinct /\ \E k \in 0..Len(signature) : LeftoverCall(k)) =>
    /\ pc # "panicked"
    /\ ret = Ok
    /\ \A i \in 1..Len(results) : results[i] = FunctionArgNormal(SuppliedFor(i))
    /\ pc \in {"content", "returned"} => Len(results) = Len(signature)

\* f(a, b) called as f(1, b=21) reached its content with a = 1 and b = 21
C11_Witness ==
  /\ signature = <<Normal("a"), Normal("b")>>
  /\ call.positional = <<IntV(1)>>
  /\ call.named = <<<<"b", IntV(21)>>>>
  /\ LeftoverCall(1)
  /\ pc = "content"
  /\ results = <<FunctionArgNormal(IntV(1)), FunctionArgNormal(IntV(21))>>

\* ---- C12

\* the receivers of the bound methods, the one bound to the native function first
Receivers == [i \in 1..(Len(heap) - 1) |-> heap[i + 1].self_obj]
\* the first declared parameter a positional value can fill
FirstFillable(i) ==
  /\ signature[i].kind # "KWArgsDict"
  /\ \A j \in 1..(i - 1) : signature[j].kind = "KWArgsDict"
\* the first value a resolved parameter holds
FirstValueIs(arg, v) ==
  CASE arg.kind = "Normal" -> arg.v = v
    [] arg.kind = "Optional" -> arg.opt = Some(v)
    [] arg.kind = "ArgsArray" -> arg.arr # <<>> /\ Head(arg.arr) = v
    [] OTHER -> FALSE

\* C12: calling a bound method calls the value it wraps with the receiver followed
\* by the caller's positional values, and with the named values, *args and
\* **kwargs as given; so in the positional pool the receivers come before the
\* caller's values and the elements of *args, and the first parameter a positional
\* value can fill is bound to the receiver of the method bound to the function
C12_WrappedMethodCall ==
  /\ [][(pc = "call" /\ heap[callee].tag = "WrappedMethod") =>
          /\ pc' = "call"
          /\ callee' = heap[callee].method
          /\ call'.positional = <<heap[callee].self_obj>> \o call.positional
          /\ call'.named = call.named
          /\ call'.args = call.args
          /\ call'.kwargs = call.kwargs]_vars
  /\ [](AfterNew =>
          \E P \in Positionals :
            /\ call.positional = Receivers \o P
            /\ parser.positional = Receivers \o P \o ValueIter(Unwrap(
                  IF call.args = None THEN Some(ListV(<<>>)) ELSE call.args)).items)
  /\ [](\A i \in 1..Len(results) :
          FirstFillable(i) => FirstValueIs(results[i], heap[2].self_obj))

\* a method bound to f(a, *args) with receiver 52, called with (1, *[11]): a is
\* the receiver, and 1 and 11 wait in the pool
C12_Witness ==
  /\ Len(heap) = 2
  /\ callee = 1
  /\ signature = <<Normal("a"), ArgsArray("args")>>
  /\ call.positional = <<IntV(52), IntV(1)>>
  /\ pc = "extract"
  /\ results = <<FunctionArgNormal(IntV(52))>>
  /\ parser.positional = <<IntV(1), IntV(11)>>

\* ---- C13

\* C13: the function_id a bound method reports is the function_id of the native
\* function under every layer of bound methods
C13_IdentityOfWrapped ==
  fid # None => Unwrap(fid) = function_id(heap, 1)

\* ---- C14

\* the name starlark_param_name! gives a '#' parameter
HashName(name) == \E d \in MacroParams : name = starlark_param_name("#", d.t)

\* C14: a parameter declared with '#' is never bound from the named pool: when
\* the positional pool is empty, resolving it leaves the named pool as it is, and
\* a required one fails with NotEnoughParameter
C14_HashNeverByName ==
  [][(/\ pc = "extract"
      /\ Len(results) < Len(signature)
      /\ Slot.kind \in {"Normal", "Optional", "WithDefaultValue"}
      /\ HashName(Slot.name)
      /\ parser.positional = <<>>) =>
       /\ parser'.kwargs = parser.kwargs
       /\ Slot.kind = "Normal" =>
            (pc' = "returned" /\ ret'.kind = "NotEnoughParameter")]_vars

\* ---- C15

\* the statement of the generated fn that runs next
Step == body[Len(results) + 1]
\* the call supplies a value for the parameter resolved next
Supplied == parser.positional # <<>> \/ LhmContainsKey(parser.kwargs, Slot.name)
SuppliedValue ==
  IF parser.positional # <<>> THEN Head(parser.positional)
  ELSE LhmGet(parser.kwargs, Slot.name)
\* the step called T::try_from on v, once, and bound arg or failed by its result
ConvertedOnce(v, arg, name) ==
  /\ tried' = Append(tried, v)
  /\ try_from(Step.T, v) # None => Resolved(arg)
  /\ try_from(Step.T, v) = None =>
       (pc' = "returned" /\ ret' = IncorrectParameterTypeNamed(name))

\* C15 as stated: an Optional parameter that resolves to None and a defaulted
\* parameter that resolves to its default are bound without a conversion
C15_AsStated ==
  [][((AtSlot("Optional") \/ AtSlot("WithDefaultValue")) /\ ~Supplied) =>
       (tried' = tried /\ pc' = "extract")]_vars

\* C15: an Optional parameter the call does not supply is bound to None without a
\* conversion; a defaulted parameter the call does not supply has its default
\* converted by into_normal as any value is; a supplied value is converted once,
\* as that of a Normal parameter is, and a failure is IncorrectParameterTypeNamed
\* with the name the statement passes ("$a" for an optional parameter a)
C15_ConversionOfSupplied ==
  [][(pc = "extract" /\ Len(results) < Len(signature)) =>
       /\ (Slot.kind = "Optional" /\ ~Supplied) =>
            (tried' = tried /\ Resolved(FunctionArgOptional(None)))
       /\ (Slot.kind = "Optional" /\ Supplied) =>
            ConvertedOnce(SuppliedValue, FunctionArgOptional(Some(SuppliedValue)),
                          starlark_param_name("#", "a"))
       /\ (Slot.kind = "WithDefaultValue" /\ ~Supplied) =>
            ConvertedOnce(Slot.default, FunctionArgNormal(Slot.default), Slot.name)
       /\ (Slot.kind \in {"Normal", "WithDefaultValue"} /\ Supplied) =>
            ConvertedOnce(SuppliedValue, FunctionArgNormal(SuppliedValue), Slot.name)]_vars

\* f(a: i64 = 41) called as f(): a is 41, and try_from was called on the default
C15_Witness ==
  /\ signature = <<WithDefaultValue("a", IntV(41))>>
  /\ body = <<Extraction("into_normal", "a", "i64")>>
  /\ call.positional = <<>> /\ call.named = <<>> /\ call.kwargs = None
  /\ results = <<FunctionArgNormal(IntV(41))>>
  /\ tried = <<IntV(41)>>

\* ---- C16

\* the variant of FunctionArg a conversion expects
VariantOf(into) ==
  CASE into = "into_normal" -> "Normal"
    [] into = "into_optional" -> "Optional"
    [] into = "into_args_array" -> "ArgsArray"
    [] into = "into_kw_args_dict" -> "KWArgsDict"
\* the values a FunctionArg holds
PayloadOf(arg) ==
  CASE arg.kind = "Normal" -> <<arg.v>>
    [] arg.kind = "Optional" -> arg.opt
    [] arg.kind = "ArgsArray" -> arg.arr
    [] arg.kind = "KWArgsDict" -> [i \in 1..Len(arg.dict) |-> arg.dict[i][2]]
    [] OTHER -> <<>>
\* every value converts to T
AllConvert(T, xs) == \A i \in 1..Len(xs) : try_from(T, xs[i]) # None

\* C16 as stated: a conversion that fails returns an IncorrectParameterType error
\* with the name of the parameter, which every into_* is given
C16_AsStated ==
  [][(pc = "convert" /\ ret' # Ok) =>
       /\ ret'.kind \in {"IncorrectParameterType", "IncorrectParameterTypeNamed"}
       /\ ret'.param_name = body[1].param_name]_vars

\* C16: into_normal, into_optional, into_args_array and into_kw_args_dict return
\* the FunctionArg when it is of their variant and every value in it converts;
\* IncorrectParameterTypeNamed with the name they were given when it is of their
\* variant and some value does not convert; and IncorrectParameterType, which
\* carries no name and no index, when it is of another variant
C16_ConversionErrors ==
  [][pc = "convert" =>
       /\ pc' = "returned"
       /\ IF given.kind # VariantOf(body[1].into)
          THEN ret' = IncorrectParameterType /\ results' = <<>> /\ tried' = <<>>
          ELSE IF AllConvert(body[1].T, PayloadOf(given))
          THEN ret' = Ok /\ results' = <<given>> /\ tried' = PayloadOf(given)
          ELSE /\ ret' = IncorrectParameterTypeNamed(body[1].param_name)
               /\ results' = <<>>]_vars

\* ArgsArray([1, "p"]).into_args_array::<i64>("a") failed on the second element
C16_Witness ==
  /\ given = FunctionArgArgsArray(<<IntV(1), StrV("p")>>)
  /\ body = <<Extraction("into_args_array", "a", "i64")>>
  /\ pc = "returned"
  /\ ret = IncorrectParameterTypeNamed("a")
  /\ tried = <<IntV(1), StrV("p")>>

\* ---- C17

\* C17: when the index equals the length of the signature, a call of next_arg
\* panics: it returns no FunctionArg and no error, and leaves the parser as it
\* is; so next_arg never takes the index past the length of the signature: the
\* index is 0 when the parser is made, and a call of next_arg made with the index
\* at most the length leaves it at most the length. (The operations a function
\* calls by name do not look at the signature and can take the index further.)
C17_OverConsumption ==
  /\ [][(pc = "extract" /\ parser.index = Len(parser.signature) /\ op' = "next_arg") =>
          /\ pc' = "panicked"
          /\ results' = results
          /\ ret' = ret
          /\ parser' = parser]_vars
  /\ [][(pc = "call" /\ pc' = "extract") => parser'.index = 0]_vars
  /\ [][(pc = "extract" /\ op' = "next_arg"
           /\ parser.index <= Len(parser.signature)) =>
          parser'.index <= Len(parser.signature)]_vars

\* next_arg was called after both parameters of a signature were taken, and
\* panicked
C17_Witness ==
  /\ Len(signature) = 2
  /\ Len(results) = 2
  /\ parser.index = 2
  /\ op = "next_arg"
  /\ pc = "panicked"

\* ---- C18

\* check_no_more_args is called before every parameter was taken
FinishesEarly ==
  /\ pc = "extract"
  /\ parser.index < Len(parser.signature)
  /\ op' = "check_no_more_args"

\* C18 as stated: check_no_more_args called before every parameter was taken
\* panics, whatever the pools hold
C18_AsStated == [][FinishesEarly => pc' = "panicked"]_vars

\* C18: check_no_more_args called before every parameter was taken returns
\* ExtraParameter when a positional or a named value is left, in every build;
\* when both pools are empty it panics in a build with debug assertions and
\* returns Ok in a build without
C18_FinishingEarly ==
  [][FinishesEarly =>
       IF parser.positional # <<>> \/ parser.kwargs # <<>>
       THEN pc' = "extract" /\ ret' = ExtraParameter
       ELSE IF debug_assertions' = Some(TRUE)
       THEN pc' = "panicked" /\ ret' = ret
       ELSE pc' = "extract" /\ ret' = Ok]_vars

\* in a build with debug assertions, check_no_more_args called first on a parser
\* of one parameter and one positional value returned ExtraParameter
C18_Witness ==
  /\ Len(signature) = 1
  /\ call.positional = <<IntV(1)>>
  /\ parser.index = 0
  /\ results = <<>>
  /\ op = "check_no_more_args"
  /\ debug_assertions = Some(TRUE)
  /\ pc = "extract"
  /\ ret = ExtraParameter

\* ---- C19

\* the variant of FunctionArg a parameter of this kind resolves to
ResolvesTo(kind) == IF kind = "WithDefaultValue" THEN "Normal" ELSE kind

\* C19: the index is 0 when the parser is made; no operation lowers it; every
\* operation that returns a value (next_arg, or next_normal, next_optional,
\* next_with_default_value, next_args_array, next_kwargs_dict called by
\* themselves) raises it by one, and one that fails leaves it;
\* check_no_more_args leaves it; so the index is the number of values returned
\* so far; and a next_arg that returns resolves the slot at the index, not one
\* below it: what it returns is of the kind of that slot.
C19_IndexMonotonic ==
  /\ [][(pc = "call" /\ pc' = "extract") => parser'.index = 0]_vars
  /\ [][pc = "extract" =>
          /\ parser'.index >= parser.index
          /\ results' # results =>
               /\ op' # "check_no_more_args"
               /\ parser'.index = parser.index + 1
               /\ Len(results') = Len(results) + 1
               /\ SubSeq(results', 1, Len(results)) = results
          /\ results' = results => parser'.index = parser.index
          /\ op' = "check_no_more_args" => parser'.index = parser.index
          /\ (op' = "next_arg" /\ results' # results) =>
               /\ parser.index < Len(signature)
               /\ results'[Len(results')].kind =
                    ResolvesTo(signature[parser.index + 1].kind)]_vars
  /\ [](pc = "extract" => Len(results) = parser.index)

\* check_no_more_args ran after the first of two parameters was taken: the index
\* is still 1
C19_Witness ==
  /\ Len(signature) = 2
  /\ Len(results) = 1
  /\ op = "check_no_more_args"
  /\ pc = "extract"
  /\ parser.index = 1

\* ---- C20

\* C20: an error of ParameterParser::new, of a next_arg, of a conversion or of
\* check_no_more_args is what the call returns: the step that fails ends the call
\* with its error, nothing runs after the call has returned, and a call that
\* returns an error has not run the content of the function
C20_NoFailureSwallowed ==
  /\ [][pc = "call" =>
          LET r == ParameterParser_new(signature, function_type, call.positional,
                                       call.named, call.args, call.kwargs)
          IN  ~r.ok => (pc' = "returned" /\ ret' = r.err /\ results' = <<>>)]_vars
  /\ [][(pc = "extract" /\ Len(results) < Len(body)) =>
          LET o == next_arg(parser)
              c == convert(body[Len(results) + 1], o.arg)
          IN  /\ o.status = "err" => (pc' = "returned" /\ ret' = o.err)
              /\ (o.status = "ok" /\ ~c.ok) => (pc' = "returned" /\ ret' = c.err)]_vars
  /\ [][(pc = "extract" /\ Len(results) = Len(body)
          /\ (parser.positional # <<>> \/ parser.kwargs # <<>>)) =>
          (pc' = "returned" /\ ret' = ExtraParameter)]_vars
  /\ [][pc # "returned"]_vars
  /\ [](ret # Ok => (pc = "returned" /\ op # "content"))
  /\ [](pc = "content" => (ret = Ok /\ Len(results) = Len(body)))

\* f(a: i64) called as f("p"): the call returned the error of into_normal, and
\* neither check_no_more_args nor the content ran
C20_Witness ==
  /\ signature = <<Normal("a")>>
  /\ body = <<Extraction("into_normal", "a", "i64")>>
  /\ call.positional = <<StrV("p")>>
  /\ pc = "returned"
  /\ op = "into_normal"
  /\ results = <<>>
  /\ ret = IncorrectParameterTypeNamed("a")

\* ---- C21

\* the locals of the call the running thread is in, and the two calls by id
RunningFrame == Frame(3 - suspended.id, call, pc, parser, results, ret, tried, op)
FrameOf(id) == IF suspended.id = id THEN suspended ELSE RunningFrame

\* what a call with payload c gives when no other call runs: the values bound
\* until it ends, and its error
RECURSIVE BindAlone(_, _, _)
BindAlone(p, steps, acc) ==
  IF steps = <<>>
  THEN [results |-> acc, ret |-> check_no_more_args(p, TRUE).err]
  ELSE LET o == next_arg(p)
           c == convert(Head(steps), o.arg)
       IN  IF o.status # "ok" THEN [results |-> acc, ret |-> o.err]
           ELSE IF ~c.ok THEN [results |-> acc, ret |-> c.err]
           ELSE BindAlone(o.p, Tail(steps), Append(acc, c.arg))
Alone(c) ==
  LET r == ParameterParser_new(signature, function_type, c.positional, c.named,
                               c.args, c.kwargs)
  IN  IF r.ok THEN BindAlone(r.parser, body, <<>>)
      ELSE [results |-> <<>>, ret |-> r.err]

IsPrefix(a, b) == Len(a) <= Len(b) /\ SubSeq(b, 1, Len(a)) = a

\* C21: two calls of one native function whose steps interleave are independent:
\* each call binds, in order, the values it binds when it runs alone and ends with
\* the same result; a step of one call leaves the cursor (index and both pools) of
\* the other call as it was, and a switch of threads changes neither cursor; the
\* signature and the function type both calls read never change.
C21_IndependentCalls ==
  /\ [](\A id \in {1, 2} :
         LET f == FrameOf(id)
             a == Alone(f.call)
         IN  /\ IsPrefix(f.results, a.results)
             /\ f.pc = "returned" => f.results = a.results /\ f.ret = a.ret
             /\ f.pc = "content" => f.results = a.results /\ a.ret = Ok
             /\ f.pc # "panicked")
  /\ [][/\ suspended'.id = suspended.id => suspended' = suspended
        /\ suspended'.id # suspended.id =>
             /\ suspended'.parser = parser
             /\ parser' = suspended.parser
        /\ signature' = signature
        /\ function_type' = function_type]_vars

\* both calls are in the middle of binding at once: each has taken its first
\* value, a different one, and neither has ended
C21_Witness ==
  /\ suspended # NoFrame
  /\ pc = "extract" /\ suspended.pc = "extract"
  /\ Len(results) = 1 /\ Len(suspended.results) = 1
  /\ Len(signature) = 2
  /\ results # suspended.results
  /\ parser.positional # suspended.parser.positional

\* ---- C22

\* the calls of fn among the calls made so far
CallsOf(fn) == {results[i] : i \in {k \in 1..Len(results) : results[k].fn = fn}}

\* the Ordering of two integers
IntOrder(m, n) == IF m = n THEN "Equal" ELSE IF m < n THEN "Less" ELSE "Greater"

\* C22: on booleans, get_hash and to_int never fail; to_int gives 1 for True and
\* 0 for False; whenever equals(x, y) returned true, every get_hash of x and
\* every get_hash of y returned the same hash; and compare(x, y) is the order of
\* the integers to_int(x) and to_int(y).
C22_BoolHashEq ==
  pc = "bool" =>
    /\ \A c \in CallsOf("to_int") : c.out.ok /\ c.out.v = (IF c.x THEN 1 ELSE 0)
    /\ \A c \in CallsOf("get_hash") : c.out.ok
    /\ \A e \in CallsOf("equals") : \A h1, h2 \in CallsOf("get_hash") :
         (e.out.ok /\ e.out.v /\ h1.x = e.x /\ h2.x = e.y) => h1.out.v = h2.out.v
    /\ \A e \in CallsOf("equals") :
         (e.out.ok /\ e.out.v) => get_hash(e.x) = get_hash(e.y)
    /\ \A c \in CallsOf("compare") :
         c.out.ok /\ c.out.v = IntOrder(to_int(c.x).v, to_int(c.y).v)

\* True was compared with False after to_int(True) and an equals that held
C22_Witness ==
  /\ pc = "bool"
  /\ \E c \in CallsOf("compare") : c.x /\ ~c.y /\ c.out.v = "Greater"
  /\ \E c \in CallsOf("to_int") : c.x /\ c.out.v = 1
  /\ \E e \in CallsOf("equals") : e.out.v

\* ---- C23

\* the text of s from position i on, and the first position of t in s (0: none)
From(s, i) == SubSeq(s, i, Len(s))
IndexOf(s, t) ==
  LET hits == {i \in 1..(Len(s) - Len(t) + 1) : SubSeq(s, i, i + Len(t) - 1) = t}
  IN  IF hits = {} THEN 0 ELSE CHOOSE i \in hits : \A j \in hits : i <= j

\* the pieces of s between the separators sep; no piece of the empty text
RECURSIVE Split(_, _)
Split(s, sep) ==
  IF s = "" THEN <<>>
  ELSE IF IndexOf(s, sep) = 0 THEN <<s>>
  ELSE <<SubSeq(s, 1, IndexOf(s, sep) - 1)>> \o Split(From(s, IndexOf(s, sep) + Len(sep)), sep)

\* the parameter list of a rendered callable: the pieces between the first "("
\* and the ")" at the end
ParamList(s) == Split(SubSeq(s, IndexOf(s, "(") + 1, Len(s) - 1), ", ")

\* the marker a parameter of that kind is rendered with
Marker(x) ==
  CASE x.kind = "Optional" -> "?" [] x.kind = "ArgsArray" -> "*"
    [] x.kind = "KWArgsDict" -> "**" [] OTHER -> ""

\* C23: the repr of a callable ends with the list, in parentheses, of one entry
\* per parameter in declaration order, separated by ", ": name for Normal, ?name
\* for Optional, name = <repr of default> for WithDefaultValue, *name for
\* ArgsArray, **name for KWArgsDict; the list of to_str is the same but for the
\* entries of Optional parameters, which are the name alone; a bound method
\* gives in both forms the text of the callable it wraps.
C23_Rendering ==
  pc = "render" =>
    \A i \in 1..Len(results) :
      LET c == results[i]
          l == ParamList(c.out)
      IN  /\ IndexOf(c.out, "(") > 0 /\ SubSeq(c.out, Len(c.out), Len(c.out)) = ")"
          /\ Len(l) = Len(signature)
          /\ \A k \in 1..Len(signature) :
               LET x == signature[k]
                   tail == IF x.kind = "WithDefaultValue"
                           THEN " = " \o Value_to_repr(x.default) ELSE ""
               IN  /\ c.fn = "to_repr" => l[k] = Marker(x) \o x.name \o tail
                   /\ c.fn = "to_str" =>
                        l[k] = (IF x.kind = "Optional" THEN "" ELSE Marker(x))
                                 \o x.name \o tail
          /\ heap[c.x].tag = "WrappedMethod" =>
               /\ c.fn = "to_repr" =>
                    c.out = callable_to_repr(heap, heap[c.x].method, function_type,
                                             signature)
               /\ c.fn = "to_str" =>
                    c.out = callable_to_str(heap, heap[c.x].method, function_type,
                                            signature)

\* a bound method around a bound method of f(?a, b = 42) gave both forms
C23_Witness ==
  /\ pc = "render"
  /\ Len(heap) = 3
  /\ signature = <<Optional("a"), WithDefaultValue("b", IntV(42))>>
  /\ \E i, j \in 1..Len(results) :
       /\ results[i].fn = "to_repr"
       /\ results[i].out = "<native function f>(?a, b = 42)"
       /\ results[j].fn = "to_str"
       /\ results[j].out = "f(a, b = 42)"

\* ---- C24

\* the entries of a declaration that declare a parameter
DeclaredParams(decl) == SelectSeq(decl, LAMBDA d : d.form \notin {"call_stack", "env"})

\* the kind of parameter and the extraction a declared parameter stands for
KindOfForm(form) ==
  CASE form = "1" -> "Normal" [] form = "?" -> "Optional"
    [] form = "=" -> "WithDefaultValue" [] form = "*" -> "ArgsArray"
    [] form = "**" -> "KWArgsDict"
IntoOfKind(kind) ==
  CASE kind \in {"Normal", "WithDefaultValue"} -> "into_normal"
    [] kind = "Optional" -> "into_optional"
    [] kind = "ArgsArray" -> "into_args_array"
    [] kind = "KWArgsDict" -> "into_kw_args_dict"

\* the payload of a call without arguments
NoArguments == [positional |-> <<>>, named |-> <<>>, args |-> None, kwargs |-> None]

\* C24: in a function starlark_module! declares, the signature has one slot per
\* declared parameter, in order and of the declared kind, and none for a
\* call_stack or env entry; the body has one next_arg statement per slot, in the
\* same order, whose extraction is the one of the slot's kind; the k-th next_arg
\* call is made with the index at k - 1, so it resolves the k-th slot;
\* check_no_more_args is called once, with the index at the length of the
\* signature; and for no payload does the call abort on an assertion.
C24_MacroPairing ==
  /\ [](/\ pc # "panicked"
        /\ Len(body) = Len(signature)
        /\ \A k \in 1..Len(signature) : body[k].into = IntoOfKind(signature[k].kind)
        /\ pc = "extract" => parser.index = Len(results)
        /\ (op = "none" /\ signature = <<>> /\ call = NoArguments) =>
             \A decl \in MacroDecls :
               LET sig == starlark_signature(decl)
                   stmts == starlark_signature_extraction(decl)
                   params == DeclaredParams(decl)
               IN  /\ Len(sig) = Len(params) /\ Len(stmts) = Len(params)
                   /\ \A k \in 1..Len(params) :
                        /\ sig[k].kind = KindOfForm(params[k].form)
                        /\ stmts[k].into = IntoOfKind(sig[k].kind))
  /\ [][/\ (pc = "extract" /\ op' \notin {"check_no_more_args", "content"}) =>
             /\ parser.index < Len(signature)
             /\ parser'.index <= parser.index + 1
             /\ pc' = "extract" =>
                  /\ Len(results') = Len(results) + 1
                  /\ parser'.index = parser.index + 1
        /\ op' = "check_no_more_args" =>
             /\ parser.index = Len(signature)
             /\ Len(results) = Len(signature)
             /\ pc' # "extract"]_vars

\* f(call_stack cs, ?a: i64, env e) was called with nothing: the one slot was
\* resolved and check_no_more_args returned Ok in a build with debug assertions
C24_Witness ==
  /\ pc = "content"
  /\ debug_assertions = Some(TRUE)
  /\ signature = <<Optional("a")>>
  /\ body = <<Extraction("into_optional", "$a", "i64")>>
  /\ results = <<FunctionArgOptional(None)>>
  /\ parser.index = 1

\* ---- C25

\* the cursor operations the call can still make: one next_arg per slot not yet
\* resolved, and check_no_more_args
Remaining == IF pc = "extract" THEN Len(signature) - Len(results) + 1 ELSE 0

\* C25: binding is one pass that ends: every call returns; when the cursor has
\* been set up, at most n + 1 cursor operations are left for a signature of n
\* slots, and every cursor operation leaves fewer; a next_arg that succeeds adds
\* the result of the next slot after the results so far and changes none of
\* them, so no slot is resolved twice; the first error ends the call with the
\* results as they were, and nothing runs after the call has returned.
C25_LinearPass ==
  /\ <>(pc = "returned")
  /\ [](Remaining >= 0 /\ Remaining <= Len(signature) + 1)
  /\ [][/\ pc # "returned"
        /\ (op' = "new" /\ pc' = "extract") => Remaining' = Len(signature) + 1
        /\ pc = "extract" =>
             /\ Remaining' < Remaining
             /\ IsPrefix(results, results')
             /\ Len(results') <= Len(results) + 1
             /\ Len(results') = Len(results) + 1 => parser'.index = Len(results')
             /\ ret' # Ok => (pc' = "returned" /\ results' = results)]_vars

\* a call of a two-slot function came to its end after three cursor operations
C25_Witness ==
  /\ pc = "returned"
  /\ op = "content"
  /\ Len(signature) = 2
  /\ Len(results) = 2
  /\ parser.index = 2

\* ---- C26

\* the step is a next_arg, or a next_normal called by itself, that returned
\* NotEnoughParameter
NextArgFailed ==
  op' = "next_arg" /\ pc' = "extract" /\ ret'.kind = "NotEnoughParameter"
NextNormalFailed ==
  op' = "next_normal" /\ pc' = "extract" /\ ret'.kind = "NotEnoughParameter"

\* C26: a next_arg that fails with NotEnoughParameter was called on a Normal
\* slot and reports the name of the slot; a next_normal or next_arg that fails
\* with NotEnoughParameter was called with the positional pool empty and no
\* named entry under the name it reports, and leaves the cursor as it was: the
\* same index, the same positional pool and the same named pool.
C26_FailureKeepsCursor ==
  [][(pc = "extract" /\ (NextArgFailed \/ NextNormalFailed)) =>
       /\ NextArgFailed =>
            /\ parser.index < Len(signature)
            /\ signature[parser.index + 1].kind = "Normal"
            /\ ret'.missing = signature[parser.index + 1].name
       /\ parser.positional = <<>>
       /\ ~LhmContainsKey(parser.kwargs, ret'.missing)
       /\ parser'.index = parser.index
       /\ parser'.positional = parser.positional
       /\ parser'.kwargs = parser.kwargs
       /\ results' = results]_vars

\* the second slot, a Normal one, could not be filled while the named pool held
\* a value under another name
C26_Witness ==
  /\ pc = "extract"
  /\ op = "next_arg"
  /\ ret.kind = "NotEnoughParameter"
  /\ parser.index = 1
  /\ Len(results) = 1
  /\ parser.positional = <<>>
  /\ parser.kwargs # <<>>

\* ---- C27

\* the cursor as ParameterParser::new returned it for this call
AfterSetup ==
  ParameterParser_new(signature, function_type, call.positional, call.named, call.args,
                      call.kwargs).parser

\* the values of a named pool, and of a FunctionArg, in order
RECURSIVE Flatten(_)
Flatten(ss) == IF ss = <<>> THEN <<>> ELSE Head(ss) \o Flatten(Tail(ss))
EntryValues(m) == [i \in 1..Len(m) |-> m[i][2]]
BoundValues(arg) ==
  CASE arg.kind = "Normal" -> <<arg.v>>
    [] arg.kind = "Optional" -> arg.opt
    [] arg.kind = "ArgsArray" -> arg.arr
    [] arg.kind = "KWArgsDict" -> EntryValues(arg.dict)
    [] OTHER -> <<>>

\* how many times v occurs in a sequence
Count(v, q) == Cardinality({i \in 1..Len(q) : q[i] = v})

\* the values in the two pools after setup, and the values bound to parameters
PoolValues == AfterSetup.positional \o EntryValues(AfterSetup.kwargs)
AllBound == Flatten([i \in 1..Len(results) |-> BoundValues(results[i])])

\* C27: when a call has bound every parameter and check_no_more_args returned
\* Ok, every value that was in the positional or the named pool after setup is
\* bound exactly as often as it was in the pools, a named value inside a **kwargs
\* result under the key it had, and every bound value that was in no pool is the
\* stored default of its WithDefaultValue parameter; and no step of the call
\* adds to a pool: the positional pool becomes a suffix of itself and the named
\* pool loses entries.
C27_Conservation ==
  /\ [](pc = "content" =>
         /\ \A i \in 1..Len(PoolValues) :
              Count(PoolValues[i], AllBound) = Count(PoolValues[i], PoolValues)
         /\ \A i \in 1..Len(results) :
              /\ \A k \in 1..Len(BoundValues(results[i])) :
                   Count(BoundValues(results[i])[k], PoolValues) = 0 =>
                     /\ signature[i].kind = "WithDefaultValue"
                     /\ BoundValues(results[i])[k] = signature[i].default
              /\ results[i].kind = "KWArgsDict" =>
                   IsSubseq(results[i].dict, AfterSetup.kwargs))
  /\ [][pc = "extract" =>
          /\ \E k \in 0..Len(parser.positional) :
               parser'.positional = SubSeq(parser.positional, k + 1, Len(parser.positional))
          /\ IsSubseq(parser'.kwargs, parser.kwargs)]_vars

\* a call was bound that gave three positional values and a named one, some of
\* them taken by *args or **kwargs
C27_Witness ==
  /\ pc = "content"
  /\ Len(AfterSetup.positional) = 3
  /\ Len(AfterSetup.kwargs) >= 1
  /\ Len(AllBound) >= 4
  /\ \E i \in 1..Len(results) : results[i].kind = "ArgsArray" /\ Len(results[i].arr) >= 2

\* ---- C28

\* the kinds of parameter that take one value
OneValueKinds == {"Normal", "Optional", "WithDefaultValue"}

\* the i-th parameter takes one value and is filled from the positional pool
\* while the named pool holds an entry under its name: no *args or **kwargs
\* parameter comes before it, the pool after setup has an i-th positional value
\* and a named entry under the name
Shadowed(i) ==
  /\ signature[i].kind \in OneValueKinds
  /\ \A j \in 1..(i - 1) : signature[j].kind \in OneValueKinds
  /\ Len(AfterSetup.positional) >= i
  /\ LhmContainsKey(AfterSetup.kwargs, signature[i].name)
\* the named entry the i-th parameter did not take
ShadowedEntry(i) == <<signature[i].name, LhmGet(AfterSetup.kwargs, signature[i].name)>>
\* the j-th parameter, a later one, was resolved and took that entry: a **kwargs
\* parameter, or a parameter of the same name filled by name
TakenBy(i, j) ==
  /\ j > i /\ j <= Len(results)
  /\ \/ results[j].kind = "KWArgsDict" /\ HasEntry(results[j].dict, ShadowedEntry(i))
     \/ /\ signature[j].kind \in OneValueKinds
        /\ signature[j].name = signature[i].name
        /\ FirstValueIs(results[j], ShadowedEntry(i)[2])
\* the call has ended
Ended == pc \in {"content", "returned"}

\* C28 as stated: the shadowed named entry stays in the pool, and the call fails
\* with ExtraParameter at completion unless a later KWArgsDict parameter is
\* declared, in which case the call succeeds with the parameter bound to the
\* positional value and the entry inside the **kwargs result.
C28_AsStated ==
  NewSucceeded =>
    \A i \in 1..Len(signature) :
      Shadowed(i) =>
        /\ (i <= Len(results)) => FirstValueIs(results[i], AfterSetup.positional[i])
        /\ Ended =>
             IF \E j \in (i + 1)..Len(signature) : signature[j].kind = "KWArgsDict"
             THEN /\ ret = Ok
                  /\ \E j \in (i + 1)..Len(results) :
                       /\ results[j].kind = "KWArgsDict"
                       /\ HasEntry(results[j].dict, ShadowedEntry(i))
             ELSE ret.kind = "ExtraParameter" /\ op = "check_no_more_args"

\* C28: a parameter filled from the positional pool does not take the named
\* entry given under its name: the step binds the positional value and leaves the
\* named pool as it was; the entry stays in the pool until a later **kwargs
\* parameter, or a later parameter of the same name that finds the positional
\* pool empty, takes it; a call that succeeds has the parameter bound to the
\* positional value and the entry taken by such a later parameter, a **kwargs
\* result holding it under the parameter's own name; a call in which every
\* parameter was resolved and none took the entry fails with ExtraParameter;
\* and a call may fail before that, when a later parameter cannot be resolved.
C28_Shadowing ==
  /\ [](NewSucceeded =>
         \A i \in 1..Len(signature) :
           (Shadowed(i) /\ i <= Len(results)) =>
             /\ FirstValueIs(results[i], AfterSetup.positional[i])
             /\ (pc = "extract" /\ ~\E j \in 1..Len(results) : TakenBy(i, j)) =>
                  HasEntry(parser.kwargs, ShadowedEntry(i))
             /\ (Ended /\ ret = Ok) =>
                  /\ \E j \in 1..Len(results) : TakenBy(i, j)
                  /\ \A j \in (i + 1)..Len(results) :
                       (results[j].kind = "KWArgsDict"
                          /\ ~\E k \in (i + 1)..(j - 1) : TakenBy(i, k)) =>
                         HasEntry(results[j].dict, ShadowedEntry(i))
             /\ (Ended /\ Len(results) = Len(signature)
                   /\ ~\E j \in 1..Len(results) : TakenBy(i, j)) =>
                  ret.kind = "ExtraParameter" /\ op = "check_no_more_args")
  /\ [][(/\ AtSlot("Normal") \/ AtSlot("Optional") \/ AtSlot("WithDefaultValue")
         /\ parser.positional # <<>>
         /\ LhmContainsKey(parser.kwargs, Slot.name)) =>
          /\ pc' = "extract"
          /\ Len(results') = Len(results) + 1
          /\ FirstValueIs(results'[Len(results')], Head(parser.positional))
          /\ parser'.kwargs = parser.kwargs]_vars

\* f(?a, **kwargs) was called as f(1, a = 21) and succeeded: a is 1 and kwargs
\* holds a = 21
C28_Witness ==
  /\ pc = "content"
  /\ signature = <<Optional("a"), KWArgsDict("kwargs")>>
  /\ Shadowed(1)
  /\ results[1] = FunctionArgOptional(Some(IntV(1)))
  /\ results[2] = FunctionArgKWArgsDict(<<<<"a", IntV(21)>>>>)

\* ---- C29

\* a parameter of this kind has been resolved
ResolvedKind(kind) == \E j \in 1..Len(results) : signature[j].kind = kind

\* C29: once a *args parameter has been resolved the positional pool is empty
\* for the rest of the call, and a later Normal, Optional or WithDefaultValue
\* parameter is bound to the named value under its name or, when there is none,
\* fails with NotEnoughParameter, is None, or is its default; once a **kwargs
\* parameter has been resolved the named pool is empty for the rest of the call,
\* and a later Normal parameter is bound to the next positional value or, when
\* none remains, fails with NotEnoughParameter, also when the call gave a value
\* under its name.
C29_AfterVariadic ==
  /\ [](pc = "extract" =>
         /\ ResolvedKind("ArgsArray") => parser.positional = <<>>
         /\ ResolvedKind("KWArgsDict") => parser.kwargs = <<>>)
  /\ [][(/\ AtSlot("Normal") \/ AtSlot("Optional") \/ AtSlot("WithDefaultValue")
         /\ ResolvedKind("ArgsArray")) =>
          IF LhmContainsKey(parser.kwargs, Slot.name)
          THEN /\ Len(results') = Len(results) + 1
               /\ FirstValueIs(results'[Len(results')], LhmGet(parser.kwargs, Slot.name))
          ELSE CASE Slot.kind = "Normal" ->
                      /\ pc' = "returned" /\ results' = results
                      /\ ret' = NotEnoughParameter(Slot.name, function_type, signature)
                 [] Slot.kind = "Optional" -> Resolved(FunctionArgOptional(None))
                 [] OTHER -> Resolved(FunctionArgNormal(Slot.default))]_vars
  /\ [][(AtSlot("Normal") /\ ResolvedKind("KWArgsDict")) =>
          IF parser.positional # <<>>
          THEN Resolved(FunctionArgNormal(Head(parser.positional)))
          ELSE /\ pc' = "returned" /\ results' = results
               /\ ret' = NotEnoughParameter(Slot.name, function_type, signature)]_vars

\* f(**kwargs, a) was called as f(a = 21): kwargs took a = 21 and the call failed
\* for want of a
C29_Witness ==
  /\ pc = "returned"
  /\ signature = <<KWArgsDict("kwargs"), Normal("a")>>
  /\ LhmContainsKey(AfterSetup.kwargs, "a")
  /\ results = <<FunctionArgKWArgsDict(AfterSetup.kwargs)>>
  /\ ret = NotEnoughParameter("a", function_type, signature)
====
